---- MODULE Spec2Model ----
(***************************************************************************)
(* Bus/device composition tree of hw/core/bus.c: bus creation and naming,  *)
(* realize/unrealize, capacity, destruction and the reset registry.        *)
(***************************************************************************)
EXTENDS Integers, Sequences, FiniteSets, TLC

\* ---------------------------------------------------------------- bounds
MaxBus == 2          \* bus objects besides the main system bus
MaxDevs == 2         \* device objects
MaxAutoId == 2       \* cap on BusClass.automatic_ids in the guards
MaxVisits == 3       \* cap on the visits of one walk that a hook may prolong
\* The largest count a merged descriptor reaches.
MaxCount == 3
\* The longest value list a merged option reaches.
MaxValues == 3
\* The most descriptors handed to slot_list_add_slot for one list.
MaxInserts == 3
\* The most objects allocated over a chain of reference-counted merges.
MaxObjs == 8
\* Bound on the calls of slot_list_add_slot with bare scalar values.
MaxBare == 4
\* The most bytes written to a buffered file, and the most room of its backend.
MaxBytes == 3
MaxRoom == 2

\* ------------------------------------------------------------- constants
NULL == 0
main_system_bus == 1
NoName == <<>>
NoError == <<>>

BusIds == 1..(MaxBus + 1)
DevIds == 1..MaxDevs

\* Bus classes: type name, max_dev, presence of the realize/unrealize hooks,
\* and device_type (<<>> is a NULL device_type, else the one type name).
BusTypes == {"PCI", "IDE", "System"}
TypeName(t) ==
    CASE t = "PCI" -> <<"P", "C", "I">>
      [] t = "IDE" -> <<"I", "D", "E">>
      [] OTHER -> <<"S", "y", "s", "t", "e", "m">>
BusClass ==
    [t \in BusTypes |->
        CASE t = "PCI" -> [max_dev |-> 0, realize |-> TRUE, unrealize |-> TRUE,
                           device_type |-> <<"pci-device">>]
          [] t = "IDE" -> [max_dev |-> 2, realize |-> FALSE, unrealize |-> FALSE,
                           device_type |-> <<"ide-device">>]
          [] OTHER -> [max_dev |-> 0, realize |-> FALSE, unrealize |-> FALSE,
                       device_type |-> <<>>]]

\* Names a caller may pass explicitly, and ids a device may carry.
ExplicitNames == {<<"p", "c", "i", ".", "0">>}
DeviceIdNames == {NoName, <<"a">>}

\* ---------------------------------------------------------------- state
VARIABLES
    bus,             \* BusState per bus object
    dev,             \* DeviceState per device object
    automatic_ids,   \* BusClass.automatic_ids per bus type
    reset_handlers,  \* entries of the process-wide reset registry
    trace,           \* hook calls and list/flag writes of the last operation
    last,            \* the last operation, its arguments and its returned error
    hist,            \* which kinds of bus creation/destruction have happened
    walk,            \* the walk over a child list that is in progress, if any
    hotplug_handler, \* bus->hotplug_handler per bus object (NULL: no handler)
    qdev_hotplug,    \* the global flag read by the availability computation
    calls,           \* handler methods invoked by the last operation
    slot,            \* the descriptor built by the last slot query
    slot_a,          \* first argument of the slot functions
    slot_b,          \* second argument of the slot functions
    res,             \* what the last slot function returned and wrote
    slot_list,       \* the DeviceSlotInfoList that slot_list_add_slot fills
    inserted,        \* the descriptors handed to slot_list_add_slot, in order
    flip,            \* the object that carries a flip property
    heap,            \* the reference-counted objects behind two option values
    vl,              \* the arguments and the result of a value list function
    bf               \* the buffered file, its backend and its owner's view

treeVars == <<bus, dev, automatic_ids, reset_handlers, trace, last, hist>>
hpVars == <<hotplug_handler, qdev_hotplug, calls, slot>>
slotVars == <<slot_a, slot_b, res>>
libVars == <<slot_list, inserted, flip, heap, vl, bf>>
vars == <<treeVars, walk, hpVars, slotVars, libVars>>

DeadBus == [live |-> FALSE, type |-> "System", name |-> NoName, parent |-> NULL,
            children |-> <<>>, max_index |-> 0, realized |-> FALSE, naming |-> "none"]
DeadDev == [live |-> FALSE, id |-> NoName, parent_bus |-> NULL, child_bus |-> <<>>,
            num_child_bus |-> 0, realized |-> FALSE]

State == [bus |-> bus, dev |-> dev, automatic_ids |-> automatic_ids,
          reset_handlers |-> reset_handlers, trace |-> <<>>, err |-> NoError]

\* ------------------------------------------------------------- helpers
\* An event of the trace is <<what, "bus" | "dev", node, argument>>.
Emit(s, e) == [s EXCEPT !.trace = Append(@, e)]
SetErr(s, e) == [s EXCEPT !.err = e]
ClearErr(s) == [s EXCEPT !.err = NoError]

SeqRemove(q, x) == SelectSeq(q, LAMBDA y : y # x)
RemoveFirst(q, x) ==
    LET idx == {i \in 1..Len(q) : q[i] = x}
    IN IF idx = {} THEN q
       ELSE LET m == CHOOSE i \in idx : \A j \in idx : i <= j
            IN SubSeq(q, 1, m - 1) \o SubSeq(q, m + 1, Len(q))
Count(q, x) == Cardinality({i \in 1..Len(q) : q[i] = x})
Range(q) == {q[i] : i \in 1..Len(q)}

\* qemu_tolower on one character
qemu_tolower(c) ==
    CASE c = "P" -> "p" [] c = "C" -> "c" [] c = "I" -> "i" [] c = "D" -> "d"
      [] c = "E" -> "e" [] c = "S" -> "s" [] c = "X" -> "x" [] c = "A" -> "a"
      [] OTHER -> c
ToLowerStr(str) == [i \in 1..Len(str) |-> qemu_tolower(str[i])]

\* "%d" for a non-negative int
Digit(n) == CASE n = 0 -> "0" [] n = 1 -> "1" [] n = 2 -> "2" [] n = 3 -> "3"
              [] n = 4 -> "4" [] n = 5 -> "5" [] n = 6 -> "6" [] n = 7 -> "7"
              [] n = 8 -> "8" [] OTHER -> "9"
RECURSIVE Decimal(_)
Decimal(n) == IF n < 10 THEN <<Digit(n)>> ELSE Decimal(n \div 10) \o <<Digit(n % 10)>>
\* g_strdup_printf("%s.%d", str, n)
Printf_s_d(str, n) == str \o <<".">> \o Decimal(n)

\* ------------------------------------------------------------ bus naming
\* Which branch of qbus_realize names the bus.
NamingBranch(s, parent, name) ==
    IF name # NoName THEN "explicit"
    ELSE IF parent # NULL /\ s.dev[parent].id # NoName THEN "parent"
    ELSE "type"

qbus_name(s, type, parent, name) ==
    CASE NamingBranch(s, parent, name) = "explicit" -> name
      [] NamingBranch(s, parent, name) = "parent" ->
            Printf_s_d(s.dev[parent].id, s.dev[parent].num_child_bus)
      [] OTHER -> ToLowerStr(Printf_s_d(TypeName(type), s.automatic_ids[type]))

sysbus_get_default == main_system_bus

\* Variant: every auto-named creation consumes a type-wide id.
automatic_ids_next_any(s, type, parent, name) ==
    IF NamingBranch(s, parent, name) # "explicit"
    THEN s.automatic_ids[type] + 1 ELSE s.automatic_ids[type]

\* bus_id = bc->automatic_ids++, in the type-named branch only
automatic_ids_next(s, type, parent, name) ==
    IF NamingBranch(s, parent, name) = "type"
    THEN s.automatic_ids[type] + 1 ELSE s.automatic_ids[type]

\* Variant: the parent's child-bus count is not advanced.
qbus_link_uncounted(s, b, parent) ==
    IF parent # NULL
    THEN [s EXCEPT !.dev[parent].child_bus = <<b>> \o @]
    ELSE IF b # sysbus_get_default
    THEN Emit([s EXCEPT !.reset_handlers = Append(@, b)], <<"register", "bus", b, 0>>)
    ELSE s

\* if (bus->parent) { QLIST_INSERT_HEAD; num_child_bus++ }
\* else if (bus != sysbus_get_default()) qemu_register_reset(...)
qbus_link(s, b, parent) ==
    IF parent # NULL
    THEN [s EXCEPT !.dev[parent].child_bus = <<b>> \o @,
                   !.dev[parent].num_child_bus = @ + 1]
    ELSE IF b # sysbus_get_default
    THEN Emit([s EXCEPT !.reset_handlers = Append(@, b)], <<"register", "bus", b, 0>>)
    ELSE s

qbus_realize(s, b, type, parent, name) ==
    qbus_link([s EXCEPT !.bus[b] = [DeadBus EXCEPT !.live = TRUE, !.type = type,
                                      !.parent = parent,
                                      !.naming = NamingBranch(s, parent, name),
                                      !.name = qbus_name(s, type, parent, name)],
                        !.automatic_ids[type] = automatic_ids_next(s, type, parent, name)],
              b, parent)

\* --------------------------------------------------- realize / unrealize
\* F is the set of nodes whose realize/unrealize hook reports an error in
\* this request; a node is <<"bus", b>> or <<"dev", d>>.
\* A set realized=false request reaching a node; the event's argument tells
\* whether the node is realized at that moment.
Request(s, kind, n) ==
    Emit(s, <<"set_realized", kind, n,
              IF (IF kind = "bus" THEN s.bus[n].realized ELSE s.dev[n].realized) THEN 1 ELSE 0>>)

RECURSIVE BusSetRealized(_, _, _, _)
RECURSIVE DeviceSetRealized(_, _, _, _)
RECURSIVE UnrealizeChildren(_, _, _)
RECURSIVE UnrealizeChildBuses(_, _, _)

\* Variant: realizing a bus also marks its child devices as realized.
BusRealizeHook_children(s, b, F) ==
    LET s0 == [s EXCEPT !.dev = [d \in DOMAIN s.dev |->
                  IF d \in Range(s.bus[b].children)
                  THEN [s.dev[d] EXCEPT !.realized = TRUE] ELSE s.dev[d]]]
    IN IF BusClass[s.bus[b].type].realize
       THEN LET s1 == Emit(s0, <<"realize", "bus", b, 0>>)
            IN IF <<"bus", b>> \in F
               THEN SetErr(Emit(s1, <<"hook_error", "bus", b, 0>>), <<"realize", "bus", b>>)
               ELSE s1
       ELSE s0

\* bc->realize(bus, &local_err), when the class has the hook
BusRealizeHook(s, b, F) ==
    IF BusClass[s.bus[b].type].realize
    THEN LET s1 == Emit(s, <<"realize", "bus", b, 0>>)
         IN IF <<"bus", b>> \in F
            THEN SetErr(Emit(s1, <<"hook_error", "bus", b, 0>>), <<"realize", "bus", b>>)
            ELSE s1
    ELSE s

\* Variant: the hook also runs after a child reported an error.
BusUnrealizeHook_unchecked(s, b, F) ==
    IF BusClass[s.bus[b].type].unrealize
    THEN LET s1 == Emit(s, <<"unrealize", "bus", b, 0>>)
         IN IF <<"bus", b>> \in F
            THEN SetErr(Emit(s1, <<"hook_error", "bus", b, 0>>), <<"unrealize", "bus", b>>)
            ELSE s1
    ELSE s

\* if (bc->unrealize && local_err == NULL) bc->unrealize(bus, &local_err)
BusUnrealizeHook(s, b, F) ==
    IF BusClass[s.bus[b].type].unrealize /\ s.err = NoError
    THEN LET s1 == Emit(s, <<"unrealize", "bus", b, 0>>)
         IN IF <<"bus", b>> \in F
            THEN SetErr(Emit(s1, <<"hook_error", "bus", b, 0>>), <<"unrealize", "bus", b>>)
            ELSE s1
    ELSE s

\* QTAILQ_FOREACH(kid, &bus->children, sibling) of bus_set_realized, kids
\* being the part of the list not yet visited; stops at the first error.
\* Variant: the walk goes on after a child reported an error.
WalkBreak_never(s) == FALSE

\* if (local_err != NULL) break;
WalkBreak(s) == s.err # NoError

UnrealizeChildren(s, kids, F) ==
    IF kids = <<>> THEN s
    ELSE LET d == Head(kids)
             s1 == DeviceSetRealized(Request(s, "dev", d), d, FALSE, F)
         IN IF WalkBreak(s1) THEN s1 ELSE UnrealizeChildren(s1, Tail(kids), F)

\* Variant: the flag is written although the hook reported an error.
BusCommitRealized_always(s, b, value) ==
    Emit([s EXCEPT !.bus[b].realized = value], <<"flag", "bus", b, IF value THEN 1 ELSE 0>>)

\* if (local_err != NULL) { error_propagate; return; } bus->realized = value;
BusCommitRealized(s, b, value) ==
    IF s.err # NoError THEN s
    ELSE Emit([s EXCEPT !.bus[b].realized = value], <<"flag", "bus", b, IF value THEN 1 ELSE 0>>)

BusSetRealized(s, b, value, F) ==
    LET s1 == IF value /\ ~s.bus[b].realized
              THEN BusRealizeHook(s, b, F)
              ELSE IF ~value /\ s.bus[b].realized
              THEN BusUnrealizeHook(UnrealizeChildren(s, s.bus[b].children, F), b, F)
              ELSE s
    IN BusCommitRealized(s1, b, value)

\* A device's set-realized: realize runs the hook only; unrealize first
\* unrealizes the device's child buses, then runs the hook.
UnrealizeChildBuses(s, buses, F) ==
    IF buses = <<>> THEN s
    ELSE LET b == Head(buses)
             s1 == BusSetRealized(Request(s, "bus", b), b, FALSE, F)
         IN IF s1.err # NoError THEN s1 ELSE UnrealizeChildBuses(s1, Tail(buses), F)

DeviceHook(s, d, F, which) ==
    IF s.err = NoError
    THEN LET s1 == Emit(s, <<which, "dev", d, 0>>)
         IN IF <<"dev", d>> \in F
            THEN SetErr(Emit(s1, <<"hook_error", "dev", d, 0>>), <<which, "dev", d>>)
            ELSE s1
    ELSE s

DeviceSetRealized(s, d, value, F) ==
    LET s1 == IF value /\ ~s.dev[d].realized
              THEN DeviceHook(s, d, F, "realize")
              ELSE IF ~value /\ s.dev[d].realized
              THEN DeviceHook(UnrealizeChildBuses(s, s.dev[d].child_bus, F), d, F, "unrealize")
              ELSE s
    IN IF s1.err # NoError THEN s1
       ELSE Emit([s1 EXCEPT !.dev[d].realized = value], <<"flag", "dev", d, IF value THEN 1 ELSE 0>>)

\* ------------------------------------------------------ attach / detach
\* Variant: the comparison is strict.
qbus_is_full_strict(s, b) ==
    BusClass[s.bus[b].type].max_dev # 0
    /\ s.bus[b].max_index > BusClass[s.bus[b].type].max_dev

qbus_is_full(s, b) ==
    BusClass[s.bus[b].type].max_dev # 0
    /\ s.bus[b].max_index >= BusClass[s.bus[b].type].max_dev

max_dev(b) == BusClass[bus[b].type].max_dev

\* Attach a new device d with the given id to bus b, with the capacity check.
bus_add_child(s, b, d, id) ==
    IF qbus_is_full(s, b)
    THEN SetErr(s, <<"CapacityError", "bus", b>>)
    ELSE [s EXCEPT !.dev[d] = [DeadDev EXCEPT !.live = TRUE, !.id = id, !.parent_bus = b],
                   !.bus[b].children = Append(@, d),
                   !.bus[b].max_index = @ + 1]

bus_remove_child(s, b, d) ==
    Emit([s EXCEPT !.bus[b].children = SeqRemove(@, d),
                   !.bus[b].max_index = @ - 1],
         <<"remove_child", "bus", b, d>>)

\* ---------------------------------------------------------- destruction
RECURSIVE bus_unparent(_, _, _)
RECURSIVE device_unparent(_, _, _)
RECURSIVE UnparentChildren(_, _, _)
RECURSIVE UnparentChildBuses(_, _, _)

\* Device destruction: unrealize first (errors ignored), destroy the child
\* buses, leave the parent bus.
UnparentChildBuses(s, d, F) ==
    IF s.dev[d].child_bus = <<>> THEN s
    ELSE UnparentChildBuses(bus_unparent(s, Head(s.dev[d].child_bus), F), d, F)

device_unparent(s, d, F) ==
    LET s0 == Emit(s, <<"object_unparent", "dev", d, 0>>)
        s1 == ClearErr(DeviceSetRealized(Request(s0, "dev", d), d, FALSE, F))
        s2 == UnparentChildBuses(s1, d, F)
        s3 == bus_remove_child(s2, s2.dev[d].parent_bus, d)
    IN [s3 EXCEPT !.dev[d] = DeadDev]

\* while ((kid = QTAILQ_FIRST(&bus->children)) != NULL) object_unparent(dev)
UnparentChildren(s, b, F) ==
    LET s0 == Emit(s, <<"loop", "bus", b, Len(s.bus[b].children)>>)
    IN IF s.bus[b].children = <<>> THEN s0
       ELSE UnparentChildren(device_unparent(s0, Head(s.bus[b].children), F), b, F)

\* Variant: the parent's child-bus count is left as it was.
BusUnlink_uncounted(s, b) ==
    LET p == s.bus[b].parent
    IN IF p # NULL
       THEN Emit([s EXCEPT !.dev[p].child_bus = SeqRemove(@, b),
                           !.bus[b].parent = NULL],
                 <<"unlink", "bus", b, p>>)
       ELSE Emit([s EXCEPT !.reset_handlers = RemoveFirst(@, b)], <<"unregister", "bus", b, 0>>)

\* Variant: a parentless bus stays in the reset registry.
BusUnlink_registered(s, b) ==
    LET p == s.bus[b].parent
    IN IF p # NULL
       THEN Emit([s EXCEPT !.dev[p].child_bus = SeqRemove(@, b),
                           !.dev[p].num_child_bus = @ - 1,
                           !.bus[b].parent = NULL],
                 <<"unlink", "bus", b, p>>)
       ELSE s

\* if (bus->parent) { QLIST_REMOVE; num_child_bus--; parent = NULL }
\* else { qemu_unregister_reset }
BusUnlink(s, b) ==
    LET p == s.bus[b].parent
    IN IF p # NULL
       THEN Emit([s EXCEPT !.dev[p].child_bus = SeqRemove(@, b),
                           !.dev[p].num_child_bus = @ - 1,
                           !.bus[b].parent = NULL],
                 <<"unlink", "bus", b, p>>)
       ELSE Emit([s EXCEPT !.reset_handlers = RemoveFirst(@, b)], <<"unregister", "bus", b, 0>>)

bus_unparent(s, b, F) ==
    LET s1 == BusUnlink(UnparentChildren(s, b, F), b)
    IN [s1 EXCEPT !.bus[b] = DeadBus]

\* ---------------------------------------------------------------- actions
SysBusName == <<"m", "a", "i", "n", "-", "s", "y", "s", "t", "e", "m", "-", "b", "u", "s">>

LiveBuses == {b \in BusIds : bus[b].live}
LiveDevs == {d \in DevIds : dev[d].live}
FreeBus == {b \in BusIds : ~bus[b].live}
FreeDev == {d \in DevIds : ~dev[d].live}
Min(S) == CHOOSE x \in S : \A y \in S : x <= y

Op(op, node, arg, name, value, err) ==
    [op |-> op, node |-> node, arg |-> arg, name |-> name, value |-> value, err |-> err]

CommitTree(s) ==
    /\ bus' = s.bus
    /\ dev' = s.dev
    /\ automatic_ids' = s.automatic_ids
    /\ reset_handlers' = s.reset_handlers
    /\ trace' = s.trace
    /\ UNCHANGED <<hpVars, slotVars, libVars>>

\* An operation that runs to its end with no hook re-entering the tree.
Commit(s) ==
    /\ CommitTree(s)
    /\ UNCHANGED walk

\* No walk has been started. A walk records its position (pc), which of the
\* three loops it is (kind), the walked bus, the loop variable (kid), the
\* children visited so far, the children attached since its start
\* (throughout), the list nodes removed during it (freed), whether it read a
\* removed node (touched) and whether a hook removed the node being visited
\* (self).
WalkIdle == [pc |-> "idle", kind |-> "none", bus |-> NULL, kid |-> NULL, visited |-> <<>>,
             throughout |-> {}, freed |-> {}, touched |-> FALSE, self |-> FALSE]

\* The state before any object exists, and the creation of the main system
\* bus: qbus_create_inplace(main_system_bus, ..., NULL, "main-system-bus").
Empty == [bus |-> [b \in BusIds |-> DeadBus], dev |-> [d \in DevIds |-> DeadDev],
          automatic_ids |-> [t \in BusTypes |-> 0], reset_handlers |-> <<>>,
          trace |-> <<>>, err |-> NoError]
main_system_bus_create == qbus_realize(Empty, main_system_bus, "System", NULL, SysBusName)

TreeInit ==
    /\ LET s == main_system_bus_create
       IN /\ bus = s.bus
          /\ dev = s.dev
          /\ automatic_ids = s.automatic_ids
          /\ reset_handlers = s.reset_handlers
          /\ trace = s.trace
    /\ last = Op("init", 0, 0, NoName, FALSE, NoError)
    /\ hist = [explicit |-> FALSE, destroyed |-> FALSE]
    /\ walk = WalkIdle

\* qbus_create(typename, parent, name)
QbusCreate(type, parent, name) ==
    /\ FreeBus # {}
    /\ parent # NULL => dev[parent].live
    /\ NamingBranch(State, parent, name) = "type" => automatic_ids[type] < MaxAutoId
    /\ LET b == Min(FreeBus)
       IN /\ Commit(qbus_realize(State, b, type, parent, name))
          /\ last' = Op("qbus_create", b, parent, name, FALSE, NoError)
    /\ hist' = [hist EXCEPT !.explicit = @ \/ name # NoName]

\* Setting the "realized" property of a bus
BusSetRealizedReq(b, value, F) ==
    /\ bus[b].live
    /\ LET s == BusSetRealized(IF value THEN State ELSE Request(State, "bus", b), b, value, F)
       IN /\ Commit(s)
          /\ last' = Op("bus_set_realized", b, IF bus[b].realized THEN 1 ELSE 0,
                        NoName, value, s.err)
    /\ UNCHANGED hist

\* Setting the "realized" property of a device
DeviceSetRealizedReq(d, value, F) ==
    /\ dev[d].live
    /\ LET s == DeviceSetRealized(IF value THEN State ELSE Request(State, "dev", d), d, value, F)
       IN /\ Commit(s)
          /\ last' = Op("device_set_realized", d, IF dev[d].realized THEN 1 ELSE 0,
                        NoName, value, s.err)
    /\ UNCHANGED hist

\* Adding a new device with the given id to bus b. The fullness of the bus is
\* tested first, so a refused request needs no device object.
Attach(b, id) ==
    /\ bus[b].live
    /\ FreeDev # {} \/ (max_dev(b) # 0 /\ bus[b].max_index >= max_dev(b))
    /\ LET d == IF FreeDev # {} THEN Min(FreeDev) ELSE NULL
           s == bus_add_child(State, b, d, id)
       IN /\ Commit(s)
          /\ last' = Op("attach", d, b, id, FALSE, s.err)
    /\ UNCHANGED hist

\* Removing device d from the tree
Detach(d, F) ==
    /\ dev[d].live
    /\ Commit(device_unparent(State, d, F))
    /\ last' = Op("detach", d, dev[d].parent_bus, NoName, FALSE, NoError)
    /\ hist' = [hist EXCEPT !.destroyed = @ \/ dev[d].child_bus # <<>>]

\* Removing bus b from the tree
BusDestroy(b, F) ==
    /\ bus[b].live
    /\ b # sysbus_get_default
    /\ Commit(bus_unparent(State, b, F))
    /\ last' = Op("bus_unparent", b, bus[b].parent, NoName, FALSE, NoError)
    /\ hist' = [hist EXCEPT !.destroyed = TRUE]

\* ---------------------------------------------------------------------
\* The walks over bus->children, one loop turn at a time, with a hook that
\* may re-enter the tree between the visit of a child and the next turn.

WalkKinds == {"unrealize", "walk_children", "unparent"}
\* The two walks written with QTAILQ_FOREACH keep a cursor across the hook.
Foreach(kind) == kind \in {"unrealize", "walk_children"}

\* QTAILQ_FIRST(&bus->children)
QTAILQ_FIRST(list) == IF list = <<>> THEN NULL ELSE Head(list)
\* kid->sibling.tqe_next of a node that is in the list
QTAILQ_NEXT(list, kid) ==
    LET i == CHOOSE i \in 1..Len(list) : list[i] = kid
    IN IF i < Len(list) THEN list[i + 1] ELSE NULL

WalkOp(what) == Op(what, walk.bus, walk.kid, NoName, FALSE, NoError)

\* Entry of bus_set_realized(bus, false), qbus_walk_children(bus, ...) or
\* bus_unparent(bus): the loop variable is initialised.
WalkStart(b, kind) ==
    /\ walk.pc = "idle"
    /\ bus[b].live /\ b # sysbus_get_default
    /\ kind = "unrealize" => bus[b].realized
    /\ walk' = [pc |-> "head", kind |-> kind, bus |-> b,
                kid |-> IF Foreach(kind) THEN QTAILQ_FIRST(bus[b].children) ELSE NULL,
                visited |-> <<>>, throughout |-> Range(bus[b].children),
                freed |-> {}, touched |-> FALSE, self |-> FALSE]
    /\ CommitTree(State)
    /\ last' = Op("walk_start", b, 0, NoName, FALSE, NoError)
    /\ UNCHANGED hist

\* The loop condition and the start of the body: the cursor (or, in
\* bus_unparent, the first node of the list as it is now) is tested against
\* NULL and kid->child is read.
WalkHead ==
    /\ walk.pc = "head"
    /\ LET b == walk.bus
           kid == IF Foreach(walk.kind) THEN walk.kid ELSE QTAILQ_FIRST(bus[b].children)
           stale == kid \in walk.freed \/ kid \notin Range(bus[b].children)
       IN IF kid = NULL
          THEN /\ walk' = [walk EXCEPT !.pc = "end", !.kid = NULL]
               /\ CommitTree(State)
          ELSE /\ walk' = [walk EXCEPT !.pc = "hook", !.kid = kid,
                                       !.visited = Append(@, kid),
                                       !.touched = @ \/ stale]
               /\ IF walk.kind = "unrealize" /\ ~stale
                  THEN CommitTree(ClearErr(DeviceSetRealized(Request(State, "dev", kid),
                                                             kid, FALSE, {})))
                  ELSE CommitTree(State)
    /\ last' = WalkOp("walk_head")
    /\ UNCHANGED hist

\* The hook called for the visited child returns without touching the tree.
WalkHookReturn ==
    /\ walk.pc = "hook"
    /\ walk' = [walk EXCEPT !.pc = "step"]
    /\ CommitTree(State)
    /\ last' = WalkOp("hook_return")
    /\ UNCHANGED hist

\* The hook removes device d of the walked bus: its list node is unlinked
\* and freed.
WalkHookRemove(d) ==
    /\ walk.pc = "hook"
    /\ d \in Range(bus[walk.bus].children)
    /\ walk' = [walk EXCEPT !.pc = "step", !.freed = @ \cup {d},
                            !.throughout = @ \ {d},
                            !.self = @ \/ d = walk.kid]
    /\ CommitTree(device_unparent(State, d, {}))
    /\ last' = WalkOp("hook_remove")
    /\ UNCHANGED hist

\* The device objects that did not exist during the walk so far.
WalkFresh == FreeDev \ (walk.freed \cup Range(walk.visited))

\* The hook attaches a new device to the walked bus.
WalkHookAttach ==
    /\ walk.pc = "hook"
    /\ WalkFresh # {}
    /\ ~qbus_is_full(State, walk.bus)
    /\ Len(walk.visited) < MaxVisits
    /\ walk' = [walk EXCEPT !.pc = "step"]
    /\ CommitTree(bus_add_child(State, walk.bus, Min(WalkFresh), NoName))
    /\ last' = WalkOp("hook_attach")
    /\ UNCHANGED hist

\* The end of the body. QTAILQ_FOREACH reads kid->sibling.tqe_next; when the
\* node was freed by the hook the value read is not defined, and the cursor
\* becomes NULL or any pointer. bus_unparent keeps no cursor: the visited
\* device is removed, unless the hook removed it already.
WalkStep ==
    /\ walk.pc = "step"
    /\ LET b == walk.bus
           kid == walk.kid
           gone == kid \in walk.freed \/ kid \notin Range(bus[b].children)
       IN IF Foreach(walk.kind)
          THEN /\ IF gone
                  THEN \E n \in (IF Len(walk.visited) < MaxVisits
                                 THEN {NULL} \cup DevIds ELSE {NULL}) :
                          walk' = [walk EXCEPT !.pc = "head", !.kid = n, !.touched = TRUE]
                  ELSE walk' = [walk EXCEPT !.pc = "head",
                                            !.kid = QTAILQ_NEXT(bus[b].children, kid)]
               /\ CommitTree(State)
          ELSE /\ walk' = [walk EXCEPT !.pc = "head", !.kid = NULL]
               /\ IF gone THEN CommitTree(State)
                  ELSE CommitTree(device_unparent(State, kid, {}))
    /\ last' = WalkOp("walk_step")
    /\ UNCHANGED hist

\* After the loop: the unrealize hook and the flag, or the unlinking of the
\* bus, or the return of qbus_walk_children.
WalkEnd ==
    /\ walk.pc = "end"
    /\ walk' = [walk EXCEPT !.pc = "idle"]
    /\ LET b == walk.bus
       IN CASE walk.kind = "unrealize" ->
                   CommitTree(BusCommitRealized(BusUnrealizeHook(State, b, {}), b, FALSE))
            [] walk.kind = "unparent" -> CommitTree(bus_unparent(State, b, {}))
            [] OTHER -> CommitTree(State)
    /\ last' = WalkOp("walk_end")
    /\ hist' = [hist EXCEPT !.destroyed = @ \/ walk.kind = "unparent"]

\* ---------------------------------------------------------------------
\* Hot-plug handlers (hw/core/hotplug.c)

Phases == {"pre_plug", "plug", "unplug_request", "unplug"}
\* Handler objects and, per object, the methods its HotplugHandlerClass sets.
HandlerIds == 1..4
HotplugHandlerClass ==
    [h \in HandlerIds |->
        CASE h = 1 -> Phases
          [] h = 2 -> {"pre_plug", "plug"}
          [] h = 3 -> {"unplug_request"}
          [] OTHER -> {}]

\* What one entry point has done so far: the methods invoked and *errp.
NoCalls == [calls |-> <<>>, err |-> NoError]

\* hdc->phase(plug_handler, plugged_dev, errp): the method runs and may set
\* *errp.
HandlerMethod(c, phase, h, d, fails) ==
    [calls |-> Append(c.calls, <<phase, h, d>>),
     err |-> IF fails THEN <<phase, "dev", d>> ELSE c.err]

hotplug_handler_pre_plug(c, h, d, fails) ==
    IF "pre_plug" \in HotplugHandlerClass[h]
    THEN HandlerMethod(c, "pre_plug", h, d, fails) ELSE c

\* Variant: the error the method reported is dropped.
hotplug_handler_plug_quiet(c, h, d, fails) ==
    IF "plug" \in HotplugHandlerClass[h]
    THEN [HandlerMethod(c, "plug", h, d, fails) EXCEPT !.err = NoError] ELSE c

hotplug_handler_plug(c, h, d, fails) ==
    IF "plug" \in HotplugHandlerClass[h]
    THEN HandlerMethod(c, "plug", h, d, fails) ELSE c

hotplug_handler_unplug_request(c, h, d, fails) ==
    IF "unplug_request" \in HotplugHandlerClass[h]
    THEN HandlerMethod(c, "unplug_request", h, d, fails) ELSE c

\* Variant: the request method is used when there is no unplug method.
hotplug_handler_unplug_fallback(c, h, d, fails) ==
    IF "unplug" \in HotplugHandlerClass[h]
    THEN HandlerMethod(c, "unplug", h, d, fails)
    ELSE hotplug_handler_unplug_request(c, h, d, fails)

hotplug_handler_unplug(c, h, d, fails) ==
    IF "unplug" \in HotplugHandlerClass[h]
    THEN HandlerMethod(c, "unplug", h, d, fails) ELSE c

\* A phase call by the orchestrator: one of the four entry points.
HotplugHandlerCall(phase, h, d, fails) ==
    /\ LET c == CASE phase = "pre_plug" -> hotplug_handler_pre_plug(NoCalls, h, d, fails)
                  [] phase = "plug" -> hotplug_handler_plug(NoCalls, h, d, fails)
                  [] phase = "unplug_request" ->
                         hotplug_handler_unplug_request(NoCalls, h, d, fails)
                  [] OTHER -> hotplug_handler_unplug(NoCalls, h, d, fails)
       IN /\ calls' = c.calls
          /\ last' = Op(phase, d, h, NoName, fails, c.err)
    /\ trace' = <<>>
    /\ UNCHANGED <<bus, dev, automatic_ids, reset_handlers, hist, walk,
                   hotplug_handler, qdev_hotplug, slot, slotVars, libVars>>

\* qbus_set_hotplug_handler(bus, handler): the link property is written.
QbusSetHotplugHandler(b, h) ==
    /\ bus[b].live
    /\ hotplug_handler' = [hotplug_handler EXCEPT ![b] = h]
    /\ last' = Op("set_hotplug_handler", b, h, NoName, FALSE, NoError)
    /\ trace' = <<>>
    /\ calls' = <<>>
    /\ UNCHANGED <<bus, dev, automatic_ids, reset_handlers, hist, walk,
                   qdev_hotplug, slot, slotVars, libVars>>

\* The end of machine creation: from now on a device is added by hot-plug.
QdevMachineCreationDone ==
    /\ ~qdev_hotplug
    /\ qdev_hotplug' = TRUE
    /\ last' = Op("machine_done", 0, 0, NoName, FALSE, NoError)
    /\ trace' = <<>>
    /\ calls' = <<>>
    /\ UNCHANGED <<bus, dev, automatic_ids, reset_handlers, hist, walk,
                   hotplug_handler, slot, slotVars, libVars>>

\* ---------------------------------------------------------------------
\* Values of slot options (QObject): a scalar, or a list whose entries are
\* scalars or lists of scalars. Every value has the same shape here: the
\* flag islist and the entries; a scalar has one entry that holds it.

QString(str) == [ty |-> "qstring", n |-> 0, s |-> str]
QNum(i) == [ty |-> "qnum", n |-> i, s |-> <<>>]
QNull == [ty |-> "qnull", n |-> 0, s |-> <<>>]
QBool(b) == [ty |-> "qbool", n |-> IF b THEN 1 ELSE 0, s |-> <<>>]
ScalarEntry(x) == [islist |-> FALSE, items |-> <<x>>]
ListEntry(xs) == [islist |-> TRUE, items |-> xs]
ScalarValue(x) == [islist |-> FALSE, elems |-> <<ScalarEntry(x)>>]
ListValue(es) == [islist |-> TRUE, elems |-> es]

\* g_new0(DeviceSlotInfo, 1): every field zero. A type name is a one-element
\* tuple and <<>> is a NULL string.
NewDeviceSlotInfo ==
    [device_types |-> <<>>, hotpluggable |-> FALSE, available |-> FALSE,
     has_count |-> FALSE, count |-> 0, opts_complete |-> FALSE, incomplete |-> FALSE,
     has_device |-> FALSE, opts |-> <<>>]
NoSlot == [NewDeviceSlotInfo EXCEPT !.count = -1]

\* slot_add_prop(slot, option, values): the option becomes the list head.
slot_add_prop(sl, option, values) ==
    [sl EXCEPT !.opts = <<[option |-> option, values |-> values]>> \o @]
\* slot_add_prop_str(slot, option, s)
slot_add_prop_str(sl, option, str) == slot_add_prop(sl, option, ScalarValue(QString(str)))

\* Whether the handler of the bus can take a device out: a test of which
\* methods are set.
qbus_is_hotpluggable(b) ==
    LET h == hotplug_handler[b]
    IN IF h = NULL THEN FALSE
       ELSE HotplugHandlerClass[h] \cap {"unplug", "unplug_request"} # {}

\* bus->accepted_device_types as qbus_initfn leaves it
accepted_device_types(s, b) ==
    IF BusClass[s.bus[b].type].device_type # <<>>
    THEN <<BusClass[s.bus[b].type].device_type>> ELSE <<>>

\* A query returns the tree as it leaves it, the handler methods it invoked
\* and the descriptor.
\* Variant: the handler is asked by calling its unplug_request method.
bus_generic_enumerate_slots_asking(s, b) ==
    [s |-> s,
     calls |-> IF hotplug_handler[b] # NULL
               THEN <<<<"unplug_request", hotplug_handler[b], NULL>>>> ELSE <<>>,
     slot |-> [NewDeviceSlotInfo EXCEPT
                  !.device_types = accepted_device_types(s, b),
                  !.hotpluggable = qbus_is_hotpluggable(b),
                  !.incomplete = TRUE,
                  !.available = ~(qbus_is_full(s, b) \/ (qdev_hotplug /\ ~qbus_is_hotpluggable(b))),
                  !.opts = <<[option |-> "bus",
                              values |-> ListValue(<<ScalarEntry(QString(s.bus[b].name))>>)]>>]]

bus_generic_enumerate_slots(s, b) ==
    [s |-> s,
     calls |-> <<>>,
     slot |-> [NewDeviceSlotInfo EXCEPT
                  !.device_types = accepted_device_types(s, b),
                  !.hotpluggable = qbus_is_hotpluggable(b),
                  !.incomplete = TRUE,
                  !.available = ~(qbus_is_full(s, b) \/ (qdev_hotplug /\ ~qbus_is_hotpluggable(b))),
                  !.opts = <<[option |-> "bus",
                              values |-> ListValue(<<ScalarEntry(QString(s.bus[b].name))>>)]>>]]

\* Variant: the bus never counts as full.
slotinfo_qbus_is_full_never(s, b) == FALSE

\* The copy of qbus_is_full in slotinfo.c
slotinfo_qbus_is_full(s, b) ==
    BusClass[s.bus[b].type].max_dev # 0
    /\ s.bus[b].max_index >= BusClass[s.bus[b].type].max_dev

make_slot(s, b) ==
    [s |-> s,
     calls |-> <<>>,
     slot |-> slot_add_prop_str(
                 [NewDeviceSlotInfo EXCEPT
                     !.device_types = <<BusClass[s.bus[b].type].device_type>>,
                     !.hotpluggable = qbus_is_hotpluggable(b),
                     !.available = ~(slotinfo_qbus_is_full(s, b)
                                     \/ (qdev_hotplug /\ ~qbus_is_hotpluggable(b)))],
                 "bus", s.bus[b].name)]

\* A slot query on bus b by one of the two generic builders.
EnumerateSlots(b, builder) ==
    /\ bus[b].live
    /\ LET q == IF builder = "bus_generic_enumerate_slots"
                THEN bus_generic_enumerate_slots(State, b) ELSE make_slot(State, b)
       IN /\ bus' = q.s.bus
          /\ dev' = q.s.dev
          /\ automatic_ids' = q.s.automatic_ids
          /\ reset_handlers' = q.s.reset_handlers
          /\ trace' = q.s.trace
          /\ calls' = q.calls
          /\ slot' = q.slot
    /\ last' = Op(builder, b, 0, NoName, FALSE, NoError)
    /\ UNCHANGED <<hist, walk, hotplug_handler, qdev_hotplug, slotVars, libVars>>

\* ---------------------------------------------------------------------
\* Value lists and the merge of slot descriptors (hw/core/slotinfo.c)

\* valuelist_normalize(values): the list itself, or a new list of one.
valuelist_normalize(v) ==
    IF v.islist THEN v.elems ELSE <<ScalarEntry(v.elems[1].items[1])>>

\* Variant: only a number or a string is taken out of its list.
valuelist_simplify_strict(l) ==
    IF Len(l) = 1 /\ ~l[1].islist /\ l[1].items[1].ty \in {"qnum", "qstring"}
    THEN ScalarValue(l[1].items[1])
    ELSE ListValue(l)

\* valuelist_simplify(values): the one scalar of a list of one, else the list.
valuelist_simplify(l) ==
    IF Len(l) = 1 /\ ~l[1].islist
    THEN ScalarValue(l[1].items[1])
    ELSE ListValue(l)

\* Variant: the entries of new are not appended.
valuelist_extend_drop(old, new) == valuelist_simplify(valuelist_normalize(old))

\* valuelist_extend(&valuelist, new): the new value of *valuelist.
valuelist_extend(old, new) ==
    valuelist_simplify(valuelist_normalize(old) \o valuelist_normalize(new))

\* The option name that stands for a NULL name.
NoOpt == ""

\* find_slot_option(opts, option): the place of the first option of that
\* name, NULL when there is none.
find_slot_option(opts, option) ==
    LET hits == {i \in 1..Len(opts) : opts[i].option = option}
    IN IF hits = {} THEN NULL ELSE Min(hits)

\* The characters in use, in the order of their codes, and the order of
\* two strings by their first differing character.
Alphabet == <<".", "0", "1", "a", "b", "c", "d", "e", "i">>
CharCode(c) == CHOOSE i \in 1..Len(Alphabet) : Alphabet[i] = c
RECURSIVE StrLess(_, _)
StrLess(x, y) ==
    IF y = <<>> THEN FALSE
    ELSE IF x = <<>> THEN TRUE
    ELSE IF Head(x) # Head(y) THEN CharCode(Head(x)) < CharCode(Head(y))
    ELSE StrLess(Tail(x), Tail(y))

\* qobject_compare(x, y): 0 for equal values, negative and positive by the
\* natural order of two numbers or of two strings.
qobject_compare(x, y) ==
    IF x = y THEN 0
    ELSE IF "ty" \in DOMAIN x /\ "ty" \in DOMAIN y /\ x.ty = y.ty /\ x.ty = "qnum"
         THEN IF x.n < y.n THEN -1 ELSE 1
    ELSE IF "ty" \in DOMAIN x /\ "ty" \in DOMAIN y /\ x.ty = y.ty /\ x.ty = "qstring"
         THEN IF StrLess(x.s, y.s) THEN -1 ELSE 1
    ELSE 1

valuelist_entry_contains(ev, v) ==
    IF ev.islist
    THEN IF Len(ev.items) = 1 THEN qobject_compare(ev.items[1], v) = 0
         ELSE IF Len(ev.items) # 2 THEN FALSE
         ELSE LET a == ev.items[1]
                  b == ev.items[2]
              IN /\ v.ty \in {"qnum", "qstring"}
                 /\ a.ty = v.ty
                 /\ b.ty = v.ty
                 /\ qobject_compare(a, v) <= 0
                 /\ qobject_compare(v, b) <= 0
    ELSE IF ev.items[1].ty \in {"qnum", "qstring", "qbool"}
         THEN qobject_compare(ev.items[1], v) = 0
         ELSE FALSE

valuelist_contains(values, v) ==
    LET l == valuelist_normalize(values)
    IN \E i \in 1..Len(l) : valuelist_entry_contains(l[i], v)

\* The loop over a of slot_options_can_be_combined from place i on, with the
\* mismatch found so far.
RECURSIVE OptionsLoop(_, _, _, _)
OptionsLoop(a, b, i, mismatch) ==
    IF i > Len(a) THEN [ok |-> TRUE, opt_name |-> mismatch]
    ELSE LET ao == a[i]
             bo == find_slot_option(b, ao.option)
         IN IF bo = NULL THEN [ok |-> FALSE, opt_name |-> NoOpt]
            ELSE IF qobject_compare(b[bo].values, ao.values) # 0
                 THEN IF mismatch # NoOpt /\ mismatch # ao.option
                      THEN [ok |-> FALSE, opt_name |-> NoOpt]
                      ELSE OptionsLoop(a, b, i + 1, ao.option)
                 ELSE OptionsLoop(a, b, i + 1, mismatch)

\* Variant: the options of b are not looked up in a first.
slot_options_can_be_combined_oneway(a, b) == OptionsLoop(a, b, 1, NoOpt)

\* slot_options_can_be_combined(a, b, &opt_name): the result and *opt_name
\* (left NULL when the result is false).
slot_options_can_be_combined(a, b) ==
    IF \E j \in 1..Len(b) : find_slot_option(a, b[j].option) = NULL
    THEN [ok |-> FALSE, opt_name |-> NoOpt]
    ELSE OptionsLoop(a, b, 1, NoOpt)

\* strcmp on the type names in use.
StrOrder == <<"ide-device", "pci-device">>
strcmp(x, y) ==
    IF x = y THEN 0
    ELSE IF (CHOOSE i \in 1..Len(StrOrder) : StrOrder[i] = x)
            < (CHOOSE i \in 1..Len(StrOrder) : StrOrder[i] = y) THEN -1 ELSE 1

\* Variant: the lists are compared up to the end of the shorter one.
RECURSIVE compare_strList_prefix(_, _)
compare_strList_prefix(a, b) ==
    IF a # <<>> /\ b # <<>>
    THEN LET c == strcmp(Head(a)[1], Head(b)[1])
         IN IF c # 0 THEN c ELSE compare_strList_prefix(Tail(a), Tail(b))
    ELSE 0

RECURSIVE compare_strList(_, _)
compare_strList(a, b) ==
    IF a # <<>> /\ b # <<>>
    THEN LET c == strcmp(Head(a)[1], Head(b)[1])
         IN IF c # 0 THEN c ELSE compare_strList(Tail(a), Tail(b))
    ELSE IF b # <<>> THEN -1
    ELSE IF a # <<>> THEN 1
    ELSE 0

slots_can_be_combined(a, b) ==
    IF \/ a.available # b.available
       \/ a.hotpluggable # b.hotpluggable
       \/ a.has_count # b.has_count
       \/ a.opts_complete # b.opts_complete
       \/ a.has_device \/ b.has_device
       \/ compare_strList(a.device_types, b.device_types) # 0
    THEN [ok |-> FALSE, opt_name |-> NoOpt]
    ELSE slot_options_can_be_combined(a.opts, b.opts)

\* Variant: the count of a is left as it is.
slots_combine_keepcount(a, b, opt_name) ==
    IF opt_name # NoOpt
    THEN LET ai == find_slot_option(a.opts, opt_name)
             bi == find_slot_option(b.opts, opt_name)
         IN [a EXCEPT !.opts[ai].values = valuelist_extend(@, b.opts[bi].values)]
    ELSE a

\* slots_combine(a, b, opt_name): a as the call leaves it.
slots_combine(a, b, opt_name) ==
    LET a1 == IF a.has_count THEN [a EXCEPT !.count = @ + b.count] ELSE a
    IN IF opt_name # NoOpt
       THEN LET ai == find_slot_option(a1.opts, opt_name)
                bi == find_slot_option(b.opts, opt_name)
            IN [a1 EXCEPT !.opts[ai].values = valuelist_extend(@, b.opts[bi].values)]
       ELSE a1

\* slots_try_combine(a, b): the result, the option name found, and a.
slots_try_combine(a, b) ==
    LET c == slots_can_be_combined(a, b)
    IN IF c.ok THEN [ok |-> TRUE, opt_name |-> c.opt_name, a |-> slots_combine(a, b, c.opt_name)]
       ELSE [ok |-> FALSE, opt_name |-> c.opt_name, a |-> a]

\* The loop of slot_list_add_slot from place i of the list on: the list as
\* the call leaves it.
RECURSIVE slot_list_scan(_, _, _)
slot_list_scan(l, s, i) ==
    IF i > Len(l) THEN <<s>> \o l
    ELSE LET r == slots_try_combine(l[i], s)
         IN IF r.ok THEN [l EXCEPT ![i] = r.a] ELSE slot_list_scan(l, s, i + 1)

\* Variant: the scan starts at the second entry.
slot_list_add_slot_skip(l, s) == slot_list_scan(l, s, 2)

\* Variant: a slot that combines with no entry is put at the tail.
slot_list_add_slot_tail(l, s) ==
    IF \E i \in 1..Len(l) : slots_try_combine(l[i], s).ok
    THEN slot_list_scan(l, s, 1) ELSE l \o <<s>>

slot_list_add_slot(l, s) == slot_list_scan(l, s, 1)

\* No slot function has been applied.
NoRes == [op |-> "none", ok |-> FALSE, opt_name |-> "", a |-> NoSlot]

HpInit ==
    /\ hotplug_handler = [b \in BusIds |-> NULL]
    /\ qdev_hotplug = FALSE
    /\ calls = <<>>
    /\ slot = NoSlot
SlotIdle ==
    /\ slot_a = NoSlot
    /\ slot_b = NoSlot
    /\ res = NoRes

\* ---------------------------------------------------------------------
\* Flip properties (qom/helpers.c). flip holds the FlipProperty of one
\* object (whether it has an open and a close function), the boolean *ptr
\* (opened), and of the last request: what it was, the functions it called,
\* the error it returned and the value it read.

\* No flip property has been added.
NoFlip == [live |-> FALSE, has_open |-> FALSE, has_close |-> FALSE, opened |-> FALSE,
           open_called |-> FALSE, close_called |-> FALSE,
           open_should_fail |-> FALSE, close_should_fail |-> FALSE,
           req |-> "none", calls |-> <<>>, err |-> "none", got |-> FALSE,
           last_ok |-> "none"]

\* openable_open(obj, &err) and openable_close(obj, &err) of the test object:
\* the object and the error. last_ok remembers the last of the two that
\* returned without an error.
openable_open(f) ==
    [f |-> [f EXCEPT !.open_called = TRUE, !.calls = Append(@, "open"),
                     !.last_ok = IF f.open_should_fail THEN @ ELSE "open"],
     err |-> IF f.open_should_fail THEN "open failed" ELSE "none"]
openable_close(f) ==
    [f |-> [f EXCEPT !.close_called = TRUE, !.calls = Append(@, "close"),
                     !.last_ok = IF f.close_should_fail THEN @ ELSE "close"],
     err |-> IF f.close_should_fail THEN "close failed" ELSE "none"]

\* Variant: a property with no close function is closed like one without
\* any function.
flip_close_lenient(f, errp) ==
    IF ~f.opened THEN f
    ELSE LET c == IF f.has_close THEN openable_close(f) ELSE [f |-> f, err |-> "none"]
         IN IF c.err # "none"
            THEN [c.f EXCEPT !.err = IF errp THEN c.err ELSE @]
            ELSE [c.f EXCEPT !.opened = FALSE]

\* Variant: the close function is called whatever the flag holds.
flip_close_eager(f, errp) ==
    IF f.has_open /\ ~f.has_close
    THEN [f EXCEPT !.err = IF errp THEN "QERR_PERMISSION_DENIED" ELSE @]
    ELSE LET c == IF f.has_close THEN openable_close(f) ELSE [f |-> f, err |-> "none"]
         IN IF c.err # "none"
            THEN [c.f EXCEPT !.err = IF errp THEN c.err ELSE @]
            ELSE [c.f EXCEPT !.opened = FALSE]

\* flip_close(obj, prop, errp); errp tells whether the caller takes errors.
flip_close(f, errp) ==
    IF ~f.opened THEN f
    ELSE IF f.has_open /\ ~f.has_close
    THEN [f EXCEPT !.err = IF errp THEN "QERR_PERMISSION_DENIED" ELSE @]
    ELSE LET c == IF f.has_close THEN openable_close(f) ELSE [f |-> f, err |-> "none"]
         IN IF c.err # "none"
            THEN [c.f EXCEPT !.err = IF errp THEN c.err ELSE @]
            ELSE [c.f EXCEPT !.opened = FALSE]

\* Variant: the open function is called whatever the flag holds.
flip_open_always(f) ==
    LET c == IF f.has_open THEN openable_open(f) ELSE [f |-> f, err |-> "none"]
    IN IF c.err # "none"
       THEN [c.f EXCEPT !.err = c.err]
       ELSE [c.f EXCEPT !.opened = TRUE]

\* Variant: the flag is left as it was after the open function returned.
flip_open_keep(f) ==
    IF f.opened THEN f
    ELSE LET c == IF f.has_open THEN openable_open(f) ELSE [f |-> f, err |-> "none"]
         IN IF c.err # "none"
            THEN [c.f EXCEPT !.err = c.err]
            ELSE c.f

\* flip_open(obj, prop, errp)
flip_open(f) ==
    IF f.opened THEN f
    ELSE LET c == IF f.has_open THEN openable_open(f) ELSE [f |-> f, err |-> "none"]
         IN IF c.err # "none"
            THEN [c.f EXCEPT !.err = c.err]
            ELSE [c.f EXCEPT !.opened = TRUE]

\* flip_set(obj, v, prop, name, errp): input is what the visitor holds, a
\* boolean or something visit_type_bool refuses.
flip_set(f, input) ==
    IF input = "bad" THEN [f EXCEPT !.err = "visit_type_bool"]
    ELSE IF input = "true" THEN flip_open(f)
    ELSE flip_close(f, TRUE)

\* The start of a request on the property.
FlipRequest(f, req) == [f EXCEPT !.req = req, !.calls = <<>>, !.err = "none"]

\* object_new of a type whose instance_init calls
\* object_add_flip_property(obj, "opened", &op->opened, open, close, errp):
\* the fields of the new object are zero; close_called is a static variable.
ObjectAddFlipProperty(open, close) ==
    /\ ~flip.live
    /\ flip' = [FlipRequest(NoFlip, "add") EXCEPT !.live = TRUE, !.has_open = open,
                                                 !.has_close = close,
                                                 !.close_called = flip.close_called]
    /\ UNCHANGED <<treeVars, walk, hpVars, slotVars, slot_list, inserted, heap, vl, bf>>

\* object_property_set(obj, input, "opened", errp)
FlipSet(input) ==
    /\ flip.live
    /\ flip' = flip_set(FlipRequest(flip, "set " \o input), input)
    /\ UNCHANGED <<treeVars, walk, hpVars, slotVars, slot_list, inserted, heap, vl, bf>>

\* object_property_get_bool(obj, "opened", errp)
FlipGet ==
    /\ flip.live
    /\ flip' = [FlipRequest(flip, "get") EXCEPT !.got = flip.opened]
    /\ UNCHANGED <<treeVars, walk, hpVars, slotVars, slot_list, inserted, heap, vl, bf>>

\* flip_release(obj, name, prop), when the object is freed.
FlipRelease ==
    /\ flip.live
    /\ flip' = [flip_close(FlipRequest(flip, "release"), FALSE) EXCEPT !.live = FALSE]
    /\ UNCHANGED <<treeVars, walk, hpVars, slotVars, slot_list, inserted, heap, vl, bf>>

\* The test sets op->open_should_fail and op->close_should_fail.
SetShouldFail(open, close) ==
    /\ flip.live
    /\ flip' = [flip EXCEPT !.open_should_fail = open, !.close_should_fail = close]
    /\ UNCHANGED <<treeVars, walk, hpVars, slotVars, slot_list, inserted, heap, vl, bf>>

\* The test clears op->open_called and close_called.
ClearCalled ==
    /\ flip.live
    /\ flip' = [flip EXCEPT !.open_called = FALSE, !.close_called = FALSE]
    /\ UNCHANGED <<treeVars, walk, hpVars, slotVars, slot_list, inserted, heap, vl, bf>>

\* ---------------------------------------------------------------------
\* Reference counts of the objects behind the values of two options
\* (hw/core/slotinfo.c). heap.objs holds the objects, each with its count
\* and, for a list, the objects it holds a reference to; heap.a and heap.b
\* are aopt->values and bopt->values. An object with count 0 is freed.

\* No option value has been allocated.
NoHeap == [objs |-> <<>>, a |-> NULL, b |-> NULL]

qobject_incref(h, o) == [h EXCEPT !.objs[o].refcnt = @ + 1]

\* qobject_decref(o): an object whose count falls to 0 is destroyed, a list
\* by releasing each of its entries.
RECURSIVE qobject_decref(_, _)
RECURSIVE qlist_destroy_entries(_, _)
qobject_decref(h, o) ==
    LET h1 == [h EXCEPT !.objs[o].refcnt = @ - 1]
    IN IF h1.objs[o].refcnt # 0 THEN h1
       ELSE qlist_destroy_entries(h1, h1.objs[o].items)
qlist_destroy_entries(h, items) ==
    IF items = <<>> THEN h
    ELSE qlist_destroy_entries(qobject_decref(h, Head(items)), Tail(items))

\* A new object with one reference, and its place.
NewObj(h, list) ==
    [h |-> [h EXCEPT !.objs = Append(@, [list |-> list, refcnt |-> 1, items |-> <<>>])],
     o |-> Len(h.objs) + 1]

\* qlist_append_obj(l, o): the list takes over the reference to o.
qlist_append_obj(h, l, o) == [h EXCEPT !.objs[l].items = Append(@, o)]

\* valuelist_normalize(values): the heap and the list returned.
valuelist_normalize_ref(h, values) ==
    IF h.objs[values].list
    THEN [h |-> qobject_incref(h, values), o |-> values]
    ELSE LET n == NewObj(h, TRUE)
         IN [h |-> qlist_append_obj(qobject_incref(n.h, values), n.o, values), o |-> n.o]

\* valuelist_simplify(values): the heap and the object returned.
valuelist_simplify_ref(h, values) ==
    IF Len(h.objs[values].items) = 1 /\ ~h.objs[h.objs[values].items[1]].list
    THEN LET o == h.objs[values].items[1]
         IN [h |-> qobject_decref(qobject_incref(h, o), values), o |-> o]
    ELSE [h |-> h, o |-> values]

\* The loop of valuelist_extend over the entries of newl.
RECURSIVE valuelist_extend_loop(_, _, _)
valuelist_extend_loop(h, l, entries) ==
    IF entries = <<>> THEN h
    ELSE valuelist_extend_loop(qlist_append_obj(qobject_incref(h, Head(entries)), l, Head(entries)),
                               l, Tail(entries))

\* valuelist_extend(&aopt->values, new): the heap, with heap.a the new
\* value of the option.
valuelist_extend_ref(h, new) ==
    LET old == h.a
        n1 == valuelist_normalize_ref(h, old)
        n2 == valuelist_normalize_ref(n1.h, new)
        h3 == valuelist_extend_loop(n2.h, n1.o, n2.h.objs[n2.o].items)
        h4 == qobject_decref(h3, n2.o)
        s == valuelist_simplify_ref(h4, n1.o)
    IN qobject_decref([s.h EXCEPT !.a = s.o], old)

\* The part of slots_combine that deals with the option opt_name, and the
\* freeing of b, which releases the reference of bopt->values.
slots_combine_ref(h) ==
    LET h1 == qobject_incref(h, h.b)
        h2 == valuelist_extend_ref(h1, h.b)
    IN [qobject_decref(h2, h.b) EXCEPT !.b = NULL]

\* A value of shape n allocated in h: a scalar for n = 0, a list of n - 1
\* scalars otherwise. The heap and the value.
RECURSIVE AllocEntries(_, _, _)
AllocEntries(h, l, n) ==
    IF n = 0 THEN h
    ELSE LET e == NewObj(h, FALSE)
         IN AllocEntries(qlist_append_obj(e.h, l, e.o), l, n - 1)
Shapes == 0..3
AllocValue(h, n) ==
    IF n = 0 THEN NewObj(h, FALSE)
    ELSE LET l == NewObj(h, TRUE)
         IN [h |-> AllocEntries(l.h, l.o, n - 1), o |-> l.o]

\* ---------------------------------------------------------------------
\* The buffered file (buffered_file.c). bf holds the QEMUFileBuffered s of
\* one file with the error of its QEMUFile, the backend behind put_buffer,
\* and what the owner sees: open tells that the owner holds the QEMUFile,
\* timer that the rate timer exists, freed that g_free(s) was called, pc the
\* place inside buffered_close. The bytes written are numbered in the order
\* of the calls, offered counting them. The backend takes bytes while it has
\* room; with no room it answers -EAGAIN, or an error once fail is set.
\* sent holds the bytes the backend took, accepted the data of the calls of
\* buffered_put_buffer that returned their size. Of the last operation bf
\* holds its name (op), its return value (ret), the calls of put_buffer it
\* made (put_calls) and whether it called put_ready (notified). bad_put
\* tells that put_buffer was called while the output was frozen, the limit
\* exceeded or an error set; stale that freed state was used; turn is the
\* parity of the turns the loop of buffered_flush has taken.
EAGAIN == 11
EIO == 5
XferLimits == {1, 2}

NoBuf == [open |-> FALSE, timer |-> FALSE, freed |-> FALSE, pc |-> "idle",
          freeze_output |-> FALSE, bytes_xfer |-> 0, xfer_limit |-> 0,
          buffer |-> <<>>, error |-> 0, room |-> 0, fail |-> FALSE,
          sent |-> <<>>, accepted |-> <<>>, offered |-> 0,
          closes |-> 0, backend_closes |-> 0, stale |-> FALSE, bad_put |-> FALSE,
          op |-> "none", ret |-> 0, put_calls |-> 0, notified |-> FALSE, turn |-> 0]

\* s->put_buffer(s->opaque, data, size) with size > 0: the state and the
\* value returned.
backend_put_buffer(b, data) ==
    LET b1 == [b EXCEPT !.put_calls = @ + 1,
                        !.bad_put = @ \/ b.freeze_output \/ b.bytes_xfer > b.xfer_limit
                                      \/ b.error # 0]
    IN IF b.room = 0
       THEN [b |-> b1, ret |-> IF b.fail THEN -EIO ELSE -EAGAIN]
       ELSE LET n == Min({Len(data), b.room})
            IN [b |-> [b1 EXCEPT !.room = @ - n, !.sent = @ \o SubSeq(data, 1, n)],
                ret |-> n]

\* Variant: the loop does not look at the transfer limit.
RECURSIVE put_down_loop_unlimited(_, _, _)
put_down_loop_unlimited(b, data, offset) ==
    IF ~b.freeze_output /\ offset < Len(data)
    THEN LET r == backend_put_buffer(b, SubSeq(data, offset + 1, Len(data)))
         IN IF r.ret = -EAGAIN
            THEN [b |-> [r.b EXCEPT !.freeze_output = TRUE], offset |-> offset]
            ELSE IF r.ret <= 0
            THEN [b |-> [r.b EXCEPT !.error = r.ret], offset |-> offset]
            ELSE put_down_loop_unlimited([r.b EXCEPT !.bytes_xfer = @ + r.ret], data,
                                         offset + r.ret)
    ELSE [b |-> b, offset |-> offset]

\* while (!s->freeze_output && offset < size) of buffered_try_put_down: the
\* state and the offset reached.
RECURSIVE put_down_loop(_, _, _)
put_down_loop(b, data, offset) ==
    IF ~b.freeze_output /\ offset < Len(data)
    THEN IF b.bytes_xfer > b.xfer_limit
         THEN [b |-> b, offset |-> offset]
         ELSE LET r == backend_put_buffer(b, SubSeq(data, offset + 1, Len(data)))
              IN IF r.ret = -EAGAIN
                 THEN [b |-> [r.b EXCEPT !.freeze_output = TRUE], offset |-> offset]
                 ELSE IF r.ret <= 0
                 THEN [b |-> [r.b EXCEPT !.error = r.ret], offset |-> offset]
                 ELSE put_down_loop([r.b EXCEPT !.bytes_xfer = @ + r.ret], data,
                                    offset + r.ret)
    ELSE [b |-> b, offset |-> offset]

\* buffered_try_put_down(s, buffer, size)
buffered_try_put_down(b, data) ==
    IF b.error # 0 THEN [b |-> b, offset |-> 0]
    ELSE put_down_loop(b, data, 0)

\* buffered_try_flush(s)
buffered_try_flush(b) ==
    LET r == buffered_try_put_down(b, b.buffer)
    IN [r.b EXCEPT !.buffer = SubSeq(b.buffer, r.offset + 1, Len(b.buffer))]

\* buffered_append(s, buf, size); the capacity grows as needed.
buffered_append(b, data) == [b EXCEPT !.buffer = @ \o data]

\* buffered_notify_up_if_ready(s)
buffered_notify_up_if_ready(b) ==
    IF b.bytes_xfer <= b.xfer_limit THEN [b EXCEPT !.notified = TRUE] ELSE b

\* Variant: the new data is put down before the buffer is flushed.
buffered_put_buffer_direct(b, data, pos) ==
    IF b.error # 0 THEN [b EXCEPT !.ret = b.error]
    ELSE LET r == buffered_try_put_down([b EXCEPT !.freeze_output = FALSE], data)
             b1 == buffered_try_flush(r.b)
             b2 == IF b1.error # 0
                   THEN [b1 EXCEPT !.ret = b1.error]
                   ELSE [buffered_append(b1, SubSeq(data, r.offset + 1, Len(data)))
                            EXCEPT !.ret = Len(data), !.accepted = @ \o data]
         IN IF pos = 0 /\ Len(data) = 0 THEN buffered_notify_up_if_ready(b2) ELSE b2

\* buffered_put_buffer(opaque, buf, pos, size)
buffered_put_buffer(b, data, pos) ==
    IF b.error # 0 THEN [b EXCEPT !.ret = b.error]
    ELSE LET b1 == buffered_try_flush([b EXCEPT !.freeze_output = FALSE])
             r == buffered_try_put_down(b1, data)
             b2 == IF r.b.error # 0
                   THEN [r.b EXCEPT !.ret = r.b.error]
                   ELSE [buffered_append(r.b, SubSeq(data, r.offset + 1, Len(data)))
                            EXCEPT !.ret = Len(data), !.accepted = @ \o data]
         IN IF pos = 0 /\ Len(data) = 0 THEN buffered_notify_up_if_ready(b2) ELSE b2

\* One turn of the loop of buffered_flush, up to the call of
\* wait_for_unfreeze.
buffered_flush_turn(b) ==
    LET b1 == buffered_try_flush([b EXCEPT !.freeze_output = FALSE])
    IN [b1 EXCEPT !.pc = IF b1.freeze_output THEN "wait" ELSE "flush", !.turn = 1 - @]

\* The entry of buffered_close(opaque), which starts with buffered_flush.
buffered_close_enter(b) == [b EXCEPT !.pc = "flush", !.closes = @ + 1, !.turn = 0]

\* The end of buffered_close after buffered_flush returned: s->close, the
\* timer deleted and freed, the buffer and s freed.
buffered_close_leave(b) ==
    [b EXCEPT !.pc = "idle", !.backend_closes = @ + 1, !.timer = FALSE, !.freed = TRUE,
              !.ret = 0, !.turn = 0]

\* buffered_rate_tick(opaque), up to the entry of buffered_close.
buffered_rate_tick(b) ==
    IF b.error # 0 THEN buffered_close_enter(b)
    ELSE IF b.freeze_output THEN b
    ELSE buffered_notify_up_if_ready(buffered_try_flush([b EXCEPT !.bytes_xfer = 0]))

\* The start of an operation on the buffered file.
BufRequest(b, op) == [b EXCEPT !.op = op, !.ret = 0, !.put_calls = 0, !.notified = FALSE]

\* A use of s after g_free(s): the call crashes, or runs on what the freed
\* memory still holds.
UseAfterFree == {"crash", "stale"}

BufUnchanged == UNCHANGED <<treeVars, walk, hpVars, slotVars, slot_list, inserted, flip, heap, vl>>

\* qemu_fopen_ops_buffered(opaque, bytes_per_sec, ...), bytes_per_sec / 10
\* being limit.
QemuFopenOpsBuffered(limit) ==
    /\ bf = NoBuf
    /\ bf' = [BufRequest(NoBuf, "open") EXCEPT !.open = TRUE, !.timer = TRUE,
                                              !.xfer_limit = limit]
    /\ BufUnchanged

\* The owner writes n bytes: put_buffer of the QEMUFile, which is
\* buffered_put_buffer(s, buf, pos, n).
BufferedPutBuffer(n) ==
    /\ bf.open /\ bf.pc = "idle"
    /\ bf.offered + n <= MaxBytes
    /\ LET data == [i \in 1..n |-> bf.offered + i]
           b == [BufRequest(bf, "put") EXCEPT !.offered = @ + n]
       IN IF bf.freed
          THEN \E u \in UseAfterFree :
                  bf' = IF u = "crash" THEN [b EXCEPT !.stale = TRUE, !.pc = "crashed"]
                        ELSE buffered_put_buffer([b EXCEPT !.stale = TRUE], data, bf.offered)
          ELSE bf' = buffered_put_buffer(b, data, bf.offered)
    /\ BufUnchanged

\* The owner asks for a notification: buffered_put_buffer(s, NULL, 0, 0).
BufferedPutNotify ==
    /\ bf.open /\ bf.pc = "idle"
    /\ LET b == BufRequest(bf, "notify")
       IN IF bf.freed
          THEN \E u \in UseAfterFree :
                  bf' = IF u = "crash" THEN [b EXCEPT !.stale = TRUE, !.pc = "crashed"]
                        ELSE buffered_put_buffer([b EXCEPT !.stale = TRUE], <<>>, 0)
          ELSE bf' = buffered_put_buffer(b, <<>>, 0)
    /\ BufUnchanged

\* The rate timer fires: buffered_rate_tick(s).
BufferedRateTick ==
    /\ bf.timer /\ bf.pc = "idle"
    /\ bf' = buffered_rate_tick(BufRequest(bf, "tick"))
    /\ BufUnchanged

\* The owner closes the QEMUFile, which calls buffered_close(s).
BufferedClose ==
    /\ bf.open /\ bf.pc = "idle"
    /\ LET b == [BufRequest(bf, "close") EXCEPT !.open = FALSE]
       IN IF bf.freed
          THEN \E u \in UseAfterFree :
                  bf' = IF u = "crash" THEN [b EXCEPT !.stale = TRUE, !.pc = "crashed"]
                        ELSE buffered_close_enter([b EXCEPT !.stale = TRUE])
          ELSE bf' = buffered_close_enter(b)
    /\ BufUnchanged

\* while (!qemu_file_get_error(s->file) && s->buffer_size): one turn.
BufferedFlushTurn ==
    /\ bf.pc = "flush"
    /\ bf.error = 0 /\ bf.buffer # <<>>
    /\ bf' = buffered_flush_turn(bf)
    /\ BufUnchanged

\* s->wait_for_unfreeze(s->opaque) returns: the backend has room for n
\* bytes, or it has none and answers with an error from now on.
WaitForUnfreeze(n) ==
    /\ bf.pc = "wait"
    /\ bf' = [bf EXCEPT !.pc = "flush", !.room = n, !.fail = @ \/ n = 0]
    /\ BufUnchanged

\* buffered_flush returns and buffered_close goes on to its end.
BufferedCloseLeave ==
    /\ bf.pc = "flush"
    /\ bf.error # 0 \/ bf.buffer = <<>>
    /\ bf' = buffered_close_leave(bf)
    /\ BufUnchanged

\* Between two operations the backend gets room for n bytes.
BackendRoom(n) ==
    /\ bf.timer /\ bf.pc = "idle"
    /\ bf.room # n
    /\ bf' = [bf EXCEPT !.room = n]
    /\ BufUnchanged

\* Between two operations the backend breaks: with no room left it answers
\* with an error.
BackendFail ==
    /\ bf.timer /\ bf.pc = "idle"
    /\ ~bf.fail
    /\ bf' = [bf EXCEPT !.fail = TRUE]
    /\ BufUnchanged

\* No value list function has been applied.
NoCall == [op |-> "none", values |-> ListValue(<<>>), v |-> QNull,
           r |-> FALSE, out |-> ListValue(<<>>)]

LibIdle ==
    /\ vl = NoCall
    /\ slot_list = <<>>
    /\ inserted = <<>>
    /\ flip = NoFlip
    /\ heap = NoHeap
    /\ bf = NoBuf

\* ----------------------------------------- applying the slot functions

\* The descriptors handed to the merge functions: one header and the ones
\* that differ from it in one field, each with every option list. One option
\* list holds the bus name as bus_generic_enumerate_slots stores it, in a
\* list of one.
BaseSlot ==
    [NewDeviceSlotInfo EXCEPT !.device_types = <<<<"ide-device">>>>, !.available = TRUE]
SlotHeaders ==
    {BaseSlot,
     [BaseSlot EXCEPT !.available = FALSE],
     [BaseSlot EXCEPT !.hotpluggable = TRUE],
     [BaseSlot EXCEPT !.has_count = TRUE, !.count = 1],
     [BaseSlot EXCEPT !.opts_complete = TRUE],
     [BaseSlot EXCEPT !.has_device = TRUE],
     [BaseSlot EXCEPT !.device_types = <<<<"pci-device">>>>],
     [BaseSlot EXCEPT !.device_types = <<<<"ide-device">>, <<"pci-device">>>>]}
BusValues == {QString(<<"i", "d", "e", ".", "0">>), QString(<<"i", "d", "e", ".", "1">>)}
AddrValues == {QNum(0), QNum(1)}
SlotOptLists ==
    {<<[option |-> "bus", values |-> ScalarValue(x)]>> : x \in BusValues}
    \cup {<<[option |-> "addr", values |-> ScalarValue(QNum(0))]>>}
    \cup {<<[option |-> "bus",
             values |-> ListValue(<<ScalarEntry(QString(<<"i", "d", "e", ".", "0">>))>>)]>>}
    \cup {<<[option |-> "addr", values |-> ScalarValue(y)],
            [option |-> "bus", values |-> ScalarValue(x)]>> : x \in BusValues, y \in AddrValues}
    \cup {<<[option |-> "bus", values |-> ScalarValue(QString(<<"i", "d", "e", ".", "0">>))],
            [option |-> "addr", values |-> ScalarValue(QNum(0))]>>}
SlotInputs == {[h EXCEPT !.opts = o] : h \in SlotHeaders, o \in SlotOptLists}

CombineInit ==
    /\ TreeInit
    /\ HpInit
    /\ slot_a \in SlotInputs
    /\ slot_b \in SlotInputs
    /\ res = NoRes
    /\ LibIdle

\* The sum of the counts and the longest joined value list of a and b.
CombineSize(a, b) ==
    LET names == {a.opts[i].option : i \in 1..Len(a.opts)}
                 \cap {b.opts[i].option : i \in 1..Len(b.opts)}
        len(n) == Len(valuelist_normalize(a.opts[find_slot_option(a.opts, n)].values))
                  + Len(valuelist_normalize(b.opts[find_slot_option(b.opts, n)].values))
    IN [count |-> a.count + b.count,
        values |-> IF names = {} THEN 0
                   ELSE CHOOSE k \in {len(n) : n \in names} : \A n \in names : len(n) <= k]

\* slot_options_can_be_combined(slot_a->opts, slot_b->opts, &opt_name).
SlotOptionsCanBeCombined ==
    /\ slot_a # NoSlot /\ slot_b # NoSlot
    /\ LET c == slot_options_can_be_combined(slot_a.opts, slot_b.opts)
       IN res' = [op |-> "slot_options_can_be_combined", ok |-> c.ok,
                  opt_name |-> c.opt_name, a |-> slot_a]
    /\ UNCHANGED <<treeVars, walk, hpVars, slot_a, slot_b, libVars>>

\* slots_can_be_combined(slot_a, slot_b, &opt_name).
SlotsCanBeCombined ==
    /\ slot_a # NoSlot /\ slot_b # NoSlot
    /\ LET c == slots_can_be_combined(slot_a, slot_b)
       IN res' = [op |-> "slots_can_be_combined", ok |-> c.ok,
                  opt_name |-> c.opt_name, a |-> slot_a]
    /\ UNCHANGED <<treeVars, walk, hpVars, slot_a, slot_b, libVars>>

\* slots_try_combine(slot_a, slot_b): on success slot_a holds the merged
\* descriptor and slot_b is freed.
SlotsTryCombine ==
    /\ slot_a # NoSlot /\ slot_b # NoSlot
    /\ CombineSize(slot_a, slot_b).count <= MaxCount
    /\ CombineSize(slot_a, slot_b).values <= MaxValues
    /\ LET r == slots_try_combine(slot_a, slot_b)
       IN /\ slot_a' = r.a
          /\ slot_b' = IF r.ok THEN NoSlot ELSE slot_b
          /\ res' = [op |-> "slots_try_combine", ok |-> r.ok,
                     opt_name |-> r.opt_name, a |-> r.a]
    /\ UNCHANGED <<treeVars, walk, hpVars, libVars>>

\* The next descriptor to compare with slot_a arrives, once the one before
\* it was merged and freed.
NextSlot(b) ==
    /\ slot_a # NoSlot /\ slot_b = NoSlot
    /\ slot_b' = b
    /\ res' = NoRes
    /\ UNCHANGED <<treeVars, walk, hpVars, slot_a, libVars>>

\* The descriptors handed to slot_list_add_slot: with no count, with a count
\* of 1 and of 2, each with one or two options.
ListInputs ==
    {[h EXCEPT !.opts = o] :
        h \in {BaseSlot,
               [BaseSlot EXCEPT !.has_count = TRUE, !.count = 1],
               [BaseSlot EXCEPT !.has_count = TRUE, !.count = 2]},
        o \in {<<[option |-> "bus", values |-> ScalarValue(x)]>> : x \in BusValues}
              \cup {<<[option |-> "addr", values |-> ScalarValue(y)],
                      [option |-> "bus", values |-> ScalarValue(x)]>> :
                        x \in BusValues, y \in AddrValues}}

\* slot_list_add_slot(&slot_list, s).
SlotListAddSlot(s) ==
    /\ Len(inserted) < MaxInserts
    /\ slot_list' = slot_list_add_slot(slot_list, s)
    /\ inserted' = Append(inserted, s)
    /\ UNCHANGED <<treeVars, walk, hpVars, slotVars, flip, heap, vl, bf>>

\* Descriptors whose option values are all bare scalars, one bus name and one
\* address each, with no count or a count of 1.
BareInputs ==
    {[h EXCEPT !.opts = <<[option |-> "addr", values |-> ScalarValue(y)],
                          [option |-> "bus", values |-> ScalarValue(x)]>>] :
        h \in {BaseSlot, [BaseSlot EXCEPT !.has_count = TRUE, !.count = 1]},
        x \in BusValues, y \in AddrValues}

\* slot_list_add_slot(&slot_list, s) in the longer sequences of descriptors
\* with bare scalar values.
SlotListAddBare(s) ==
    /\ Len(inserted) < MaxBare
    /\ slot_list' = slot_list_add_slot(slot_list, s)
    /\ inserted' = Append(inserted, s)
    /\ UNCHANGED <<treeVars, walk, hpVars, slotVars, flip, heap, vl, bf>>

\* The scalars, entries and value lists handed to the value list functions:
\* the four kinds of scalar; as entries the scalars, the lists of one and of
\* two scalars, the empty list and a list of three; as value lists the
\* scalars and the lists of up to two entries.
Scalars ==
    {QNull, QBool(FALSE), QBool(TRUE)}
    \cup {QNum(i) : i \in {1, 5, 10, 11}}
    \cup {QString(<<c>>) : c \in {"a", "b", "c"}}
Entries ==
    {ScalarEntry(x) : x \in Scalars}
    \cup {ListEntry(<<x>>) : x \in Scalars}
    \cup {ListEntry(<<x, y>>) : x, y \in Scalars}
    \cup {ListEntry(<<>>), ListEntry(<<QNum(1), QNum(5), QNum(10)>>)}
PairEntries ==
    {ScalarEntry(x) : x \in {QNull, QBool(TRUE), QNum(5), QString(<<"a">>)}}
    \cup {ListEntry(<<QNum(1), QNum(10)>>), ListEntry(<<QString(<<"a">>), QString(<<"b">>)>>),
          ListEntry(<<QNum(11)>>), ListEntry(<<QNum(10), QNum(1)>>)}
ValueLists ==
    {ScalarValue(x) : x \in Scalars}
    \cup {ListValue(<<>>)}
    \cup {ListValue(<<e>>) : e \in Entries}
    \cup {ListValue(<<e, f>>) : e, f \in PairEntries}

ValueInit ==
    /\ TreeInit /\ HpInit /\ SlotIdle
    /\ slot_list = <<>> /\ inserted = <<>> /\ flip = NoFlip /\ heap = NoHeap /\ bf = NoBuf
    /\ \E values \in ValueLists, v \in Scalars :
          vl = [NoCall EXCEPT !.values = values, !.v = v]

\* valuelist_contains(vl.values, vl.v).
ValuelistContains ==
    /\ vl' = [vl EXCEPT !.op = "valuelist_contains",
                        !.r = valuelist_contains(vl.values, vl.v),
                        !.out = ListValue(<<>>)]
    /\ UNCHANGED <<treeVars, walk, hpVars, slotVars, slot_list, inserted, flip, heap, bf>>

\* valuelist_simplify(valuelist_normalize(vl.values)).
ValuelistNormalizeSimplify ==
    /\ vl' = [vl EXCEPT !.op = "valuelist_simplify",
                        !.r = FALSE,
                        !.out = valuelist_simplify(valuelist_normalize(vl.values))]
    /\ UNCHANGED <<treeVars, walk, hpVars, slotVars, slot_list, inserted, flip, heap, bf>>

\* aopt->values and bopt->values are allocated, each held by its option.
RefInit ==
    /\ TreeInit /\ HpInit /\ SlotIdle
    /\ slot_list = <<>> /\ inserted = <<>> /\ flip = NoFlip /\ vl = NoCall /\ bf = NoBuf
    /\ \E m, n \in Shapes :
          LET x == AllocValue(NoHeap, m)
              y == AllocValue(x.h, n)
          IN heap = [y.h EXCEPT !.a = x.o, !.b = y.o]

\* slots_combine(a, b, opt_name) for the option behind heap.a and heap.b.
SlotsCombineRefs ==
    /\ heap.b # NULL
    /\ heap' = slots_combine_ref(heap)
    /\ UNCHANGED <<treeVars, walk, hpVars, slotVars, slot_list, inserted, flip, vl, bf>>

\* The option of the next descriptor to merge is allocated.
NextValue(n) ==
    /\ heap.a # NULL /\ heap.b = NULL
    /\ Len(heap.objs) + n + 1 <= MaxObjs
    /\ LET y == AllocValue(heap, n) IN heap' = [y.h EXCEPT !.b = y.o]
    /\ UNCHANGED <<treeVars, walk, hpVars, slotVars, slot_list, inserted, flip, vl, bf>>

Init == TreeInit /\ HpInit /\ SlotIdle /\ LibIdle

\* The nodes whose hook a request reaches when no hook fails, given the trace
\* of that run: only their failure can change the outcome.
HookNodes(tr) ==
    {<<tr[i][2], tr[i][3]>> : i \in {j \in 1..Len(tr) : tr[j][1] \in {"realize", "unrealize"}}}
FailuresOf(tr) == {{}} \cup {{n} : n \in HookNodes(tr)}

\* Realize/unrealize life cycle over trees of type-named PCI buses.
Next ==
    \/ \E p \in {NULL} \cup DevIds : QbusCreate("PCI", p, NoName)
    \/ \E b \in BusIds \ {main_system_bus} : Attach(b, NoName)
    \/ \E b \in BusIds \ {main_system_bus} : \E F \in {{}, {<<"bus", b>>}} :
          BusSetRealizedReq(b, TRUE, F)
    \/ \E d \in DevIds : \E F \in {{}, {<<"dev", d>>}} : DeviceSetRealizedReq(d, TRUE, F)
    \/ \E b \in LiveBuses \ {main_system_bus} :
          \E F \in FailuresOf(BusSetRealized(State, b, FALSE, {}).trace) :
             BusSetRealizedReq(b, FALSE, F)
    \/ \E d \in DevIds : \E F \in {{}, {<<"dev", d>>}} : DeviceSetRealizedReq(d, FALSE, F)

Spec == Init /\ [][Next]_vars

\* Creation, naming and destruction of buses. The parents are two devices on
\* the main system bus, one with an id and one without.
NameNext ==
    \/ \E p \in {NULL} \cup DevIds, n \in {NoName} \cup ExplicitNames : QbusCreate("PCI", p, n)
    \/ QbusCreate("IDE", NULL, NoName)
    \/ \E id \in DeviceIdNames :
          (\A d \in LiveDevs : dev[d].id # id) /\ Attach(main_system_bus, id)
    \/ \E b \in BusIds : BusDestroy(b, {})

NameSpec == Init /\ [][NameNext]_vars

\* Attaching and detaching devices on the system bus and on IDE buses.
SlotNext ==
    \/ \E p \in {NULL} \cup DevIds, n \in ExplicitNames : QbusCreate("IDE", p, n)
    \/ \E b \in BusIds : Attach(b, NoName)
    \/ \E d \in DevIds : Detach(d, {})

SlotSpec == Init /\ [][SlotNext]_vars

\* Destruction of buses with realized and unrealized devices below them.
DestroyNext ==
    \/ \E p \in {NULL} \cup DevIds, n \in ExplicitNames : QbusCreate("PCI", p, n)
    \/ \E b \in BusIds \ {main_system_bus} : Attach(b, NoName)
    \/ \E d \in DevIds : DeviceSetRealizedReq(d, TRUE, {})
    \/ \E b \in LiveBuses \ {main_system_bus} :
          \E F \in FailuresOf(bus_unparent(State, b, {}).trace) : BusDestroy(b, F)

DestroySpec == Init /\ [][DestroyNext]_vars

WalkNext ==
    \/ \E n \in ExplicitNames : walk = WalkIdle /\ QbusCreate("PCI", NULL, n)
    \/ \E b \in BusIds \ {main_system_bus} : walk = WalkIdle /\ Attach(b, NoName)
    \/ \E b \in BusIds \ {main_system_bus} : walk = WalkIdle /\ BusSetRealizedReq(b, TRUE, {})
    \/ \E b \in BusIds, kind \in WalkKinds : WalkStart(b, kind)
    \/ WalkHead
    \/ WalkHookReturn
    \/ \E d \in DevIds : WalkHookRemove(d)
    \/ WalkHookAttach
    \/ WalkStep
    \/ WalkEnd
WalkSpec == Init /\ [][WalkNext]_vars

HotplugNext ==
    \/ \E n \in ExplicitNames : LiveBuses = {main_system_bus} /\ QbusCreate("IDE", NULL, n)
    \/ \E b \in BusIds \ {main_system_bus} : Attach(b, NoName)
    \/ \E b \in BusIds \ {main_system_bus} : QbusSetHotplugHandler(b, 1)
    \/ \E phase \in Phases, h \in HandlerIds, d \in DevIds, fails \in BOOLEAN :
          (fails => phase \in HotplugHandlerClass[h]) /\ HotplugHandlerCall(phase, h, d, fails)
HotplugSpec == Init /\ [][HotplugNext]_vars

QueryNext ==
    \/ \E n \in ExplicitNames : LiveBuses = {main_system_bus} /\ QbusCreate("IDE", NULL, n)
    \/ \E b \in BusIds \ {main_system_bus} : Attach(b, NoName)
    \/ \E b \in BusIds, h \in {1, 2} : QbusSetHotplugHandler(b, h)
    \/ QdevMachineCreationDone
    \/ \E b \in BusIds, builder \in {"bus_generic_enumerate_slots", "make_slot"} :
          EnumerateSlots(b, builder)
QuerySpec == Init /\ [][QueryNext]_vars

\* The merge functions applied to descriptors drawn from SlotInputs.
CombineNext ==
    \/ SlotOptionsCanBeCombined
    \/ SlotsCanBeCombined
    \/ SlotsTryCombine
    \/ \E b \in SlotInputs : NextSlot(b)
CombineSpec == CombineInit /\ [][CombineNext]_vars

\* A list of descriptors built by slot_list_add_slot from the empty list.
ListNext == \E s \in ListInputs : SlotListAddSlot(s)
ListSpec == Init /\ [][ListNext]_vars

\* The value list functions applied to value lists drawn from ValueLists.
ValueNext ==
    \/ ValuelistContains
    \/ ValuelistNormalizeSimplify
ValueSpec == ValueInit /\ [][ValueNext]_vars

\* The requests on a flip property of an object.
FlipNext ==
    \/ \E open, close \in BOOLEAN : ObjectAddFlipProperty(open, close)
    \/ \E input \in {"true", "false", "bad"} : FlipSet(input)
    \/ FlipGet
    \/ FlipRelease
    \/ \E open, close \in BOOLEAN : SetShouldFail(open, close)
    \/ ClearCalled
FlipSpec == Init /\ [][FlipNext]_vars

\* Requests on the boolean of a flip property and on the realized flag of
\* PCI buses, repeated in any order.
ToggleNext ==
    \/ \E open, close \in BOOLEAN : ObjectAddFlipProperty(open, close)
    \/ \E input \in {"true", "false"} : FlipSet(input)
    \/ \E open, close \in BOOLEAN : SetShouldFail(open, close)
    \/ QbusCreate("PCI", NULL, NoName)
    \/ \E b \in BusIds \ {main_system_bus}, value \in BOOLEAN :
          \E F \in {{}, {<<"bus", b>>}} : BusSetRealizedReq(b, value, F)
ToggleSpec == Init /\ [][ToggleNext]_vars

\* Insertions of descriptors with bare scalar values into a list.
BareNext == \E s \in BareInputs : SlotListAddBare(s)
BareSpec == Init /\ [][BareNext]_vars

\* Merges of option values with their reference counts.
RefNext ==
    \/ SlotsCombineRefs
    \/ \E n \in Shapes : NextValue(n)
RefSpec == RefInit /\ [][RefNext]_vars

\* Writes, rate ticks and the close of a buffered file over a backend with
\* bounded room.
BufNext ==
    \/ \E limit \in XferLimits : QemuFopenOpsBuffered(limit)
    \/ \E n \in 1..MaxRoom : BufferedPutBuffer(n)
    \/ BufferedPutNotify
    \/ BufferedRateTick
    \/ BufferedClose
    \/ BufferedFlushTurn
    \/ \E n \in 0..MaxRoom : WaitForUnfreeze(n)
    \/ BufferedCloseLeave
    \/ \E n \in 0..MaxRoom : BackendRoom(n)
    \/ BackendFail
BufSpec == Init /\ [][BufNext]_vars

\* The same, with buffered_close running on once it was entered: its loop
\* takes its next turn, wait_for_unfreeze returns and the function ends.
BufLiveSpec ==
    /\ Init /\ [][BufNext]_vars
    /\ WF_vars(BufferedFlushTurn)
    /\ WF_vars(\E n \in 0..MaxRoom : WaitForUnfreeze(n))
    /\ WF_vars(BufferedCloseLeave)

\* ------------------------------------------------------------ properties
HasEvent(tr, e) == \E i \in 1..Len(tr) : tr[i] = e

\* C1: on a bus with a capacity the occupancy (and the number of children)
\* never exceeds the capacity; an attach requested while the bus is full
\* returns the capacity error and leaves occupancy and child list as they were.
C1_Bounded ==
    \A b \in BusIds :
        bus[b].live /\ max_dev(b) # 0 =>
            bus[b].max_index <= max_dev(b) /\ Len(bus[b].children) <= max_dev(b)
C1_FullAttachFails ==
    \A b \in BusIds :
        (last'.op = "attach" /\ last'.arg = b /\ max_dev(b) # 0
         /\ bus[b].max_index >= max_dev(b)) =>
            /\ last'.err = <<"CapacityError", "bus", b>>
            /\ bus'[b].max_index = bus[b].max_index
            /\ bus'[b].children = bus[b].children
            /\ dev' = dev
C1_Capacity == []C1_Bounded /\ [][C1_FullAttachFails]_vars
C1_Witness ==
    /\ last.op = "attach"
    /\ last.err = <<"CapacityError", "bus", last.arg>>
    /\ bus[last.arg].max_index = max_dev(last.arg)
    /\ Len(bus[last.arg].children) = max_dev(last.arg)

\* C2: when the realize hook of a bus reports failure on a set realized=true
\* request, the flag stays false and the request itself returns that error;
\* every set-true request on an unrealized bus invokes the hook, also the one
\* that follows a failed request.
C2_Outcome ==
    (last.op = "bus_set_realized" /\ last.value /\ last.arg = 0
     /\ BusClass[bus[last.node].type].realize) =>
        /\ HasEvent(trace, <<"realize", "bus", last.node, 0>>)
        /\ IF HasEvent(trace, <<"hook_error", "bus", last.node, 0>>)
           THEN ~bus[last.node].realized /\ last.err = <<"realize", "bus", last.node>>
           ELSE bus[last.node].realized /\ last.err = NoError
C2_Retry ==
    (/\ last.op = "bus_set_realized" /\ last.value /\ last.err # NoError
     /\ last'.op = "bus_set_realized" /\ last'.value /\ last'.node = last.node) =>
        HasEvent(trace', <<"realize", "bus", last.node, 0>>)
C2_RealizeFailure == []C2_Outcome /\ [][C2_Retry]_vars
C2_Witness ==
    /\ last.op = "bus_set_realized" /\ last.value
    /\ last.err = <<"realize", "bus", last.node>>
    /\ HasEvent(trace, <<"hook_error", "bus", last.node, 0>>)
    /\ ~bus[last.node].realized

\* Tree position of the nodes named by trace events.
RECURSIVE DevUnder(_, _)
DevUnder(x, d) ==
    \/ x = d
    \/ /\ dev[x].parent_bus # NULL
       /\ bus[dev[x].parent_bus].parent # NULL
       /\ DevUnder(bus[dev[x].parent_bus].parent, d)
NodeUnder(e, d) ==
    IF e[2] = "dev" THEN DevUnder(e[3], d)
    ELSE bus[e[3]].parent # NULL /\ DevUnder(bus[e[3]].parent, d)

Positions(tr, what, kind, n) ==
    {j \in 1..Len(tr) : tr[j][1] = what /\ tr[j][2] = kind /\ tr[j][3] = n}

\* C3: when a set realized=false request reaches a realized bus, its child
\* devices are asked to unrealize in child-list order, each child's whole
\* subtree being handled before the next child is asked (depth-first); the
\* bus's own unrealize hook runs only after every child was asked and is
\* unrealized with no error reported, and the bus's flag is written (and so
\* becomes false) only after its hook ran without error.
C3_UnrealizeOrder ==
    \A i \in 1..Len(trace) :
        (trace[i][1] = "set_realized" /\ trace[i][2] = "bus" /\ trace[i][4] = 1) =>
            LET b == trace[i][3]
                kids == bus[b].children
                req(k) == Positions(trace, "set_realized", "dev", kids[k])
                hook == Positions(trace, "unrealize", "bus", b)
                flag == Positions(trace, "flag", "bus", b)
                errors == {j \in 1..Len(trace) : trace[j][1] = "hook_error"}
            IN /\ \A k, l \in 1..Len(kids) :
                    k < l => \A jl \in req(l) : \E jk \in req(k) : i < jk /\ jk < jl
               /\ \A k \in 1..Len(kids) : \A j \in 1..Len(trace) :
                    NodeUnder(trace[j], kids[k]) =>
                        /\ \E jk \in req(k) : jk <= j
                        /\ \A l \in 1..Len(kids) : k < l => \A jl \in req(l) : j < jl
                        /\ \A h \in hook \cup flag : j < h
               /\ \A h \in hook :
                    /\ i < h
                    /\ \A k \in 1..Len(kids) :
                          (\E jk \in req(k) : jk < h) /\ ~dev[kids[k]].realized
                    /\ \A j \in errors : h < j
               /\ \A f \in flag :
                    /\ i < f
                    /\ \A k \in 1..Len(kids) :
                          (\E jk \in req(k) : jk < f) /\ ~dev[kids[k]].realized
                    /\ BusClass[bus[b].type].unrealize => \E h \in hook : h < f
                    /\ \A j \in errors : f < j
               /\ bus[b].realized <=> flag = {}
\* A realized bus with a hook and two children, the first owning a bus with a
\* hook of its own, was unrealized completely.
C3_Witness ==
    /\ last.op = "bus_set_realized" /\ ~last.value /\ last.arg = 1 /\ last.err = NoError
    /\ Len(bus[last.node].children) >= 2
    /\ dev[bus[last.node].children[1]].child_bus # <<>>
    /\ HasEvent(trace, <<"unrealize", "bus", last.node, 0>>)
    /\ HasEvent(trace, <<"unrealize", "bus", dev[bus[last.node].children[1]].child_bus[1], 0>>)
    /\ HasEvent(trace, <<"unrealize", "dev", bus[last.node].children[2], 0>>)
    /\ Positions(trace, "unrealize", "dev", bus[last.node].children[1])
          \subseteq 1..Min(Positions(trace, "set_realized", "dev", bus[last.node].children[2]))
    /\ ~bus[last.node].realized

\* C4: when a child (or a node below it) fails during the recursive unrealize
\* of a realized bus, the siblings after that child are neither asked nor
\* changed, the bus's own hook is not run, the bus stays realized, the failing
\* hook's error is what the request returns, and the children before the
\* failing one are unrealized; a retry in which no hook fails unrealizes the
\* bus and all its children.
C4_Abort ==
    (last'.op = "bus_set_realized" /\ ~last'.value /\ last'.arg = 1) =>
        LET b == last'.node
            kids == bus[b].children
            errors == {j \in 1..Len(trace') : trace'[j][1] = "hook_error"}
        IN \A k \in 1..Len(kids) : \A j \in errors :
              NodeUnder(trace'[j], kids[k]) =>
                 /\ \A l \in 1..Len(kids) :
                       k < l => /\ Positions(trace', "set_realized", "dev", kids[l]) = {}
                                /\ dev'[kids[l]] = dev[kids[l]]
                 /\ Positions(trace', "unrealize", "bus", b) = {}
                 /\ bus'[b].realized
                 /\ last'.err = <<"unrealize", trace'[j][2], trace'[j][3]>>
                 /\ \A l \in 1..Len(kids) : l < k => ~dev'[kids[l]].realized
C4_Retry ==
    (/\ last.op = "bus_set_realized" /\ ~last.value /\ last.err # NoError
     /\ last'.op = "bus_set_realized" /\ ~last'.value /\ last'.node = last.node
     /\ \A j \in 1..Len(trace') : trace'[j][1] # "hook_error") =>
        /\ ~bus'[last.node].realized
        /\ last'.err = NoError
        /\ \A k \in 1..Len(bus[last.node].children) : ~dev'[bus[last.node].children[k]].realized
C4_PartialUnrealize == [][C4_Abort /\ C4_Retry]_vars
\* The first of two realized children failed: the second was not asked, and
\* it and the bus are still realized.
C4_Witness ==
    /\ last.op = "bus_set_realized" /\ ~last.value /\ last.arg = 1
    /\ Len(bus[last.node].children) = 2
    /\ last.err = <<"unrealize", "dev", bus[last.node].children[1]>>
    /\ dev[bus[last.node].children[1]].realized
    /\ dev[bus[last.node].children[2]].realized
    /\ Positions(trace, "set_realized", "dev", bus[last.node].children[2]) = {}
    /\ bus[last.node].realized

\* Two live buses that share a parent device, or are both parentless.
Siblings(b1, b2) ==
    /\ b1 # b2 /\ bus[b1].live /\ bus[b2].live
    /\ bus[b1].parent = bus[b2].parent
DistinctNames == \A b1, b2 \in BusIds : Siblings(b1, b2) => bus[b1].name # bus[b2].name

\* C5: as long as every bus was created without an explicit name, whatever
\* creations and destructions happened, the live child buses of one parent
\* have pairwise distinct names and so have the live parentless buses.
C5_DistinctNames == ~hist.explicit => DistinctNames

\* C6: as long as every bus was created without an explicit name and no bus
\* was destroyed, the child buses of one parent have pairwise distinct names
\* and so have the parentless buses.
C6_CreationOnly == (~hist.explicit /\ ~hist.destroyed) => DistinctNames
\* Two auto-named buses under the same parent device and an auto-named
\* parentless bus beside the system bus are hard to have at once with few
\* buses: the witness is the pair under one parent that has an id.
C6_Witness ==
    /\ ~hist.explicit /\ ~hist.destroyed
    /\ \E b1, b2 \in BusIds :
          /\ Siblings(b1, b2) /\ bus[b1].parent # NULL
          /\ dev[bus[b1].parent].id # NoName
          /\ bus[b1].naming = "parent" /\ bus[b2].naming = "parent"

\* The lowercased type names, written out.
LowerTypeName(t) ==
    CASE t = "PCI" -> <<"p", "c", "i">>
      [] t = "IDE" -> <<"i", "d", "e">>
      [] OTHER -> <<"s", "y", "s", "t", "e", "m">>

\* C7: a created bus is named by the explicit name if there is one, else by
\* the parent's id, a dot and the parent's child-bus count of that moment if
\* the parent has an id, else by the lowercased type name, a dot and the
\* type's counter; the type's counter advances by one in exactly the last
\* case, and no other step (destruction included) changes any counter.
C7_Step ==
    IF last'.op = "qbus_create"
    THEN LET b == last'.node
             p == last'.arg
             n == last'.name
             ty == bus'[b].type
             byType == n = NoName /\ (p = NULL \/ dev[p].id = NoName)
         IN /\ bus'[b].name =
                  IF n # NoName THEN n
                  ELSE IF p # NULL /\ dev[p].id # NoName
                  THEN dev[p].id \o <<".">> \o Decimal(dev[p].num_child_bus)
                  ELSE LowerTypeName(ty) \o <<".">> \o Decimal(automatic_ids[ty])
            /\ \A t \in BusTypes :
                  automatic_ids'[t] =
                      IF byType /\ t = ty THEN automatic_ids[t] + 1 ELSE automatic_ids[t]
    ELSE automatic_ids' = automatic_ids
C7_Naming == [][C7_Step]_vars
\* After a destruction and creations of the other kinds, a second bus of a
\* type was named from the type's counter.
C7_Witness ==
    /\ last.op = "qbus_create" /\ bus[last.node].naming = "type"
    /\ hist.destroyed /\ hist.explicit
    /\ bus[last.node].name = <<"p", "c", "i", ".", "1">>
    /\ automatic_ids["PCI"] = 2
    /\ \E b \in BusIds : bus[b].live /\ bus[b].naming = "parent"

\* C9: the reset registry holds exactly the live parentless buses other than
\* the main system bus, each once; a creation registers the new bus exactly
\* when it is parentless, a destruction unregisters it exactly when it was
\* parentless, and nothing is registered or unregistered for a bus under a
\* parent device or for the main system bus.
C9_Registry ==
    /\ \A b \in BusIds :
          Count(reset_handlers, b) =
              IF bus[b].live /\ bus[b].parent = NULL /\ b # main_system_bus THEN 1 ELSE 0
    /\ \A i \in 1..Len(trace) :
          trace[i][1] \in {"register", "unregister"} =>
              /\ trace[i][3] = last.node /\ trace[i][3] # main_system_bus
              /\ last.arg = NULL
              /\ last.op = (IF trace[i][1] = "register" THEN "qbus_create" ELSE "bus_unparent")
    /\ (last.op = "qbus_create" /\ last.arg = NULL) =>
          trace = <<<<"register", "bus", last.node, 0>>>>
    /\ (last.op = "bus_unparent" /\ last.arg = NULL) =>
          Cardinality(Positions(trace, "unregister", "bus", last.node)) = 1
\* A parentless bus was destroyed and left the registry while the other
\* parentless bus stays registered, and the main system bus never was.
C9_Witness ==
    /\ last.op = "bus_unparent" /\ last.arg = NULL
    /\ Count(reset_handlers, last.node) = 0
    /\ ~bus[last.node].live
    /\ \E b \in BusIds \ {main_system_bus} :
          bus[b].live /\ bus[b].parent = NULL /\ reset_handlers = <<b>>

\* The values of the loop-head events of bus b, in order.
LoopCounts(tr, b) ==
    LET F[i \in 0..Len(tr)] ==
            IF i = 0 THEN <<>>
            ELSE IF tr[i][1] = "loop" /\ tr[i][2] = "bus" /\ tr[i][3] = b
                 THEN Append(F[i - 1], tr[i][4])
                 ELSE F[i - 1]
    IN F[Len(tr)]

\* C8 (the order inside one destruction): the loop over the children of the
\* destroyed bus sees a strictly shorter list at each turn and ends at the
\* empty list (so it terminates); every removal of a child comes before the
\* bus leaves its parent's list or the reset registry, which happens once
\* and after the loop has seen the empty list; a child is asked to unrealize
\* before it is removed.
C8_Order ==
    last.op = "bus_unparent" =>
        LET b == last.node
            loops == LoopCounts(trace, b)
            ends == Positions(trace, "unlink", "bus", b) \cup Positions(trace, "unregister", "bus", b)
        IN /\ Len(loops) >= 1 /\ loops[Len(loops)] = 0
           /\ \A i \in 1..(Len(loops) - 1) : loops[i + 1] = loops[i] - 1
           /\ Cardinality(ends) = 1
           /\ \A u \in ends :
                 /\ \A j \in 1..Len(trace) :
                       (trace[j][1] = "remove_child" /\ trace[j][3] = b) => j < u
                 /\ \A j \in Positions(trace, "loop", "bus", b) : j < u
           /\ \A j \in 1..Len(trace) :
                 (trace[j][1] = "remove_child" /\ trace[j][3] = b) =>
                     \E k \in Positions(trace, "set_realized", "dev", trace[j][4]) : k < j
           /\ ~bus[b].live

\* C8 (the effect of one destruction): every device that was on the bus is
\* removed, one removal each, and is no longer realized nor live; the parent
\* device, if any, loses exactly this bus from its child-bus list and exactly
\* one from its child-bus count; no other step lowers a child-bus count.
C8_Effect ==
    IF last'.op = "bus_unparent"
    THEN LET b == last'.node
             p == bus[b].parent
         IN /\ \A i \in 1..Len(bus[b].children) :
                  LET d == bus[b].children[i]
                  IN /\ HasEvent(trace', <<"remove_child", "bus", b, d>>)
                     /\ ~dev'[d].live /\ ~dev'[d].realized
            /\ Cardinality({j \in 1..Len(trace') :
                               trace'[j][1] = "remove_child" /\ trace'[j][3] = b})
                  = Len(bus[b].children)
            /\ p # NULL =>
                  /\ dev'[p].num_child_bus = dev[p].num_child_bus - 1
                  /\ dev'[p].child_bus = SeqRemove(dev[p].child_bus, b)
                  /\ HasEvent(trace', <<"unlink", "bus", b, p>>)
            /\ p = NULL =>
                  \A d \in DevIds : dev'[d].live => dev'[d].num_child_bus = dev[d].num_child_bus
    ELSE \A d \in DevIds :
            (dev[d].live /\ dev'[d].live) => dev'[d].num_child_bus >= dev[d].num_child_bus
C8_Destroy == []C8_Order /\ [][C8_Effect]_vars
\* A bus under a parent device was destroyed while it held a realized
\* device.
C8_Witness ==
    /\ last.op = "bus_unparent" /\ last.arg # NULL
    /\ LoopCounts(trace, last.node) = <<1, 0>>
    /\ \E i \in 1..Len(trace) : trace[i][1] = "set_realized" /\ trace[i][2] = "dev" /\ trace[i][4] = 1
    /\ dev[last.arg].live

\* C10: a hook called during a walk over a bus's child list may attach or
\* remove a device of that bus; the walk never reads a removed node, and when
\* it has ended every child that stayed attached from its start to its end
\* was visited exactly once.
C10_SafeWalk ==
    /\ ~walk.touched
    /\ (walk.pc = "idle" /\ walk.kind # "none") =>
          \A d \in walk.throughout : Count(walk.visited, d) = 1

\* C11: each of the four hot-plug entry points invokes the handler's method
\* of that same phase exactly once, with the given device, when the handler
\* implements it, and never a method of another phase; when the handler does
\* not implement it nothing is invoked and no error is set; every phase can
\* be called in every state, whatever was called before.
C11_Dispatch ==
    /\ last.op \in Phases =>
          IF last.op \in HotplugHandlerClass[last.arg]
          THEN calls = <<<<last.op, last.arg, last.node>>>>
          ELSE calls = <<>> /\ last.err = NoError
    /\ \A phase \in Phases, h \in HandlerIds, d \in DevIds :
          ENABLED HotplugHandlerCall(phase, h, d, FALSE)
\* unplug was called on a handler that has an unplug_request method but no
\* unplug method.
C11_Witness ==
    /\ last.op = "unplug"
    /\ "unplug" \notin HotplugHandlerClass[last.arg]
    /\ "unplug_request" \in HotplugHandlerClass[last.arg]
    /\ calls = <<>>
    /\ last.err = NoError

\* C12: when the method of a hot-plug phase reports an error, the entry
\* point returns with that error set, and the call changes nothing of the
\* tree: buses with their child lists and occupancy, devices, handler links
\* and realized flags are as before (the device of a failed plug is attached
\* no more than it was).
C12_Step ==
    (last'.op \in Phases /\ last'.value) =>
        /\ last'.err = <<last'.op, "dev", last'.node>>
        /\ bus' = bus
        /\ dev' = dev
        /\ hotplug_handler' = hotplug_handler
        /\ automatic_ids' = automatic_ids
        /\ reset_handlers' = reset_handlers
C12_FailedPhase == [][C12_Step]_vars
\* A plug of a device that is not attached failed, on the handler of a bus
\* that holds another device.
C12_Witness ==
    /\ last.op = "plug" /\ last.err = <<"plug", "dev", last.node>>
    /\ ~dev[last.node].live
    /\ \E b \in BusIds :
          /\ bus[b].live /\ hotplug_handler[b] = last.arg
          /\ bus[b].children # <<>> /\ bus[b].max_index = Len(bus[b].children)

Builders == {"bus_generic_enumerate_slots", "make_slot"}
\* The handler of bus b has an unplug or an unplug_request method.
HandlerCanUnplug(b) ==
    /\ hotplug_handler[b] # NULL
    /\ \/ "unplug" \in HotplugHandlerClass[hotplug_handler[b]]
       \/ "unplug_request" \in HotplugHandlerClass[hotplug_handler[b]]
\* Bus b holds fewer devices than its class allows, or its class sets no limit.
NotFull(b) == max_dev(b) = 0 \/ bus[b].max_index < max_dev(b)

\* C13: the descriptor a generic builder returns for a bus has available
\* true exactly when the bus is not full and the bus is hot-pluggable or the
\* global hot-plug flag is false; the two builders give the same value for
\* the same bus.
C13_Available ==
    /\ last.op \in Builders =>
          (slot.available <=> (NotFull(last.node) /\ (HandlerCanUnplug(last.node) \/ ~qdev_hotplug)))
    /\ \A b \in LiveBuses :
          bus_generic_enumerate_slots(State, b).slot.available = make_slot(State, b).slot.available
\* With the hot-plug flag set, a bus with room whose handler cannot unplug
\* is reported unavailable, while another bus is full.
C13_Witness ==
    /\ last.op = "make_slot"
    /\ qdev_hotplug /\ NotFull(last.node) /\ ~HandlerCanUnplug(last.node)
    /\ hotplug_handler[last.node] # NULL
    /\ ~slot.available
    /\ \E b \in LiveBuses : ~NotFull(b)

\* C14: a query by the generic builder finds whether the bus is
\* hot-pluggable from the methods the handler has, invokes no handler
\* method, and leaves the tree as it was: buses with their child lists,
\* occupancy and names, devices, naming counters, handler links, realized
\* flags.
C14_Step ==
    last'.op \in Builders =>
        /\ calls' = <<>>
        /\ slot'.hotpluggable = HandlerCanUnplug(last'.node)
        /\ bus' = bus
        /\ dev' = dev
        /\ automatic_ids' = automatic_ids
        /\ reset_handlers' = reset_handlers
        /\ hotplug_handler' = hotplug_handler
C14_QueryFrame == [][C14_Step]_vars
\* A bus that holds a device and has a handler with unplug methods was
\* queried.
C14_Witness ==
    /\ last.op = "bus_generic_enumerate_slots"
    /\ hotplug_handler[last.node] = 1
    /\ slot.hotpluggable
    /\ calls = <<>>
    /\ bus[last.node].children # <<>>

\* C15: the descriptor a generic builder returns has has_device and
\* has_count unset and opts_complete true, and its list of accepted device
\* types is the one type the bus class declares, or empty when it declares
\* none.
C15_Header ==
    last.op \in Builders =>
        /\ ~slot.has_device
        /\ ~slot.has_count
        /\ slot.opts_complete
        /\ slot.device_types =
              IF BusClass[bus[last.node].type].device_type = <<>> THEN <<>>
              ELSE <<BusClass[bus[last.node].type].device_type>>

\* A value is canonical: one scalar is stored bare, not as a list of one.
Canonical(v) == ~(v.islist /\ Len(v.elems) = 1 /\ ~v.elems[1].islist)

\* C16: every value stored in a descriptor is canonical, and the "bus"
\* option of the descriptor a generic builder returns is the bare bus name.
C16_Canonical ==
    /\ \A i \in 1..Len(slot.opts) : Canonical(slot.opts[i].values)
    /\ \A i \in 1..Len(res.a.opts) : Canonical(res.a.opts[i].values)
    /\ last.op \in Builders =>
          /\ Len(slot.opts) = 1
          /\ slot.opts[1].option = "bus"
          /\ slot.opts[1].values = ScalarValue(QString(bus[last.node].name))

\* The header of a descriptor: every field but its options.
Header(d) == [d EXCEPT !.opts = <<>>]

\* The places of a's options whose value differs from the one b has there,
\* for descriptors with the same option names in the same places.
Differing(a, b) == {i \in 1..Len(a.opts) : a.opts[i].values # b.opts[i].values}

\* a and b are identical except for the value of the option at place i.
IdenticalExcept(a, b, i) ==
    /\ a # NoSlot /\ b # NoSlot
    /\ Header(a) = Header(b)
    /\ Len(a.opts) = Len(b.opts)
    /\ \A j \in 1..Len(a.opts) : a.opts[j].option = b.opts[j].option
    /\ Differing(a, b) = {i}

\* The elements of a's value at place i followed by those of b's.
Joined(a, b, i) == ListValue(a.opts[i].values.elems \o b.opts[i].values.elems)

\* C17: when slot_a and slot_b are identical except for the value of one
\* option k, slots_can_be_combined succeeds and reports k, and the merge
\* replaces the value of k in slot_a by the elements of slot_a's value
\* followed by those of slot_b's, leaving every other option and every
\* header field of slot_a unchanged.
C17_Step ==
    \A i \in 1..Len(slot_a.opts) :
        IdenticalExcept(slot_a, slot_b, i) =>
            /\ res'.op = "slots_can_be_combined" =>
                  res'.ok /\ res'.opt_name = slot_a.opts[i].option
            /\ res'.op = "slots_try_combine" =>
                  /\ res'.ok
                  /\ slot_a' = [slot_a EXCEPT !.opts[i].values = Joined(slot_a, slot_b, i)]
C17_Merge == [][C17_Step]_vars

\* The same for descriptors that hold no device, with the count of slot_a
\* raised by the count of slot_b when slot_a has a count.
C17_NoDeviceStep ==
    \A i \in 1..Len(slot_a.opts) :
        IdenticalExcept(slot_a, slot_b, i) /\ ~slot_a.has_device =>
            /\ res'.op = "slots_can_be_combined" =>
                  res'.ok /\ res'.opt_name = slot_a.opts[i].option
            /\ res'.op = "slots_try_combine" =>
                  /\ res'.ok
                  /\ slot_a' = [slot_a EXCEPT
                                   !.opts[i].values = Joined(slot_a, slot_b, i),
                                   !.count = IF slot_a.has_count THEN @ + slot_b.count ELSE @]
C17_NoDeviceMerge == [][C17_NoDeviceStep]_vars

\* a and b differ in one of the header fields compared first.
HeaderDiffers(a, b) ==
    \/ a.available # b.available
    \/ a.hotpluggable # b.hotpluggable
    \/ a.has_count # b.has_count
    \/ a.opts_complete # b.opts_complete
    \/ a.device_types # b.device_types

\* C18: slots_can_be_combined returns false, and slots_try_combine returns
\* false and leaves both descriptors as they are, whenever slot_a and
\* slot_b differ in available, hotpluggable, the presence of a count,
\* opts_complete or the ordered list of accepted device types, whatever
\* their options are.
C18_Step ==
    slot_a # NoSlot /\ slot_b # NoSlot /\ HeaderDiffers(slot_a, slot_b) =>
        /\ res'.op = "slots_can_be_combined" => ~res'.ok
        /\ res'.op = "slots_try_combine" =>
              ~res'.ok /\ slot_a' = slot_a /\ slot_b' = slot_b
C18_HeaderMismatch == [][C18_Step]_vars

\* slots_can_be_combined has refused two descriptors that differ in
\* hotpluggable and in the value of one option and in nothing else.
C18_Witness ==
    /\ res.op = "slots_can_be_combined"
    /\ ~res.ok
    /\ slot_a.hotpluggable # slot_b.hotpluggable
    /\ [Header(slot_a) EXCEPT !.hotpluggable = FALSE]
         = [Header(slot_b) EXCEPT !.hotpluggable = FALSE]
    /\ Len(slot_a.opts) = Len(slot_b.opts)
    /\ \A j \in 1..Len(slot_a.opts) : slot_a.opts[j].option = slot_b.opts[j].option
    /\ Cardinality(Differing(slot_a, slot_b)) = 1

\* C19: has_device bears on slots_can_be_combined only through a difference
\* in its presence: the result is false when exactly one of slot_a and
\* slot_b holds a device, and when both or neither hold one and the other
\* header fields are equal, the result and the reported option are those
\* of the comparison of the options.
C19_Step ==
    slot_a # NoSlot /\ slot_b # NoSlot /\ res'.op = "slots_can_be_combined" =>
        /\ slot_a.has_device # slot_b.has_device => ~res'.ok
        /\ slot_a.has_device = slot_b.has_device /\ ~HeaderDiffers(slot_a, slot_b) =>
              /\ res'.ok = slot_options_can_be_combined(slot_a.opts, slot_b.opts).ok
              /\ res'.opt_name = slot_options_can_be_combined(slot_a.opts, slot_b.opts).opt_name
C19_DevicePresence == [][C19_Step]_vars

\* The option names of an option list, the value an option list gives a
\* name, and the names two lists give different values.
OptionNames(o) == {o[i].option : i \in 1..Len(o)}
ValueOf(o, n) == o[find_slot_option(o, n)].values
Mismatching(a, b) ==
    {n \in OptionNames(a) \cap OptionNames(b) : ValueOf(a, n) # ValueOf(b, n)}

\* C20: slot_options_can_be_combined returns true exactly when the two
\* option lists have the same set of option names and at most one name has
\* differing values; on true it reports that one name, or none when all
\* values are equal.
C20_Options ==
    res.op = "slot_options_can_be_combined" =>
        LET a == slot_a.opts
            b == slot_b.opts
        IN /\ res.ok = (/\ OptionNames(a) = OptionNames(b)
                        /\ Cardinality(Mismatching(a, b)) <= 1)
           /\ res.ok => \/ Mismatching(a, b) = {} /\ res.opt_name = NoOpt
                        \/ Mismatching(a, b) = {res.opt_name}

\* slot_options_can_be_combined has accepted two lists that hold the same
\* two names in a different order and has reported the one name whose
\* values differ.
C20_Witness ==
    /\ res.op = "slot_options_can_be_combined"
    /\ res.ok
    /\ Len(slot_a.opts) = 2
    /\ slot_a.opts[1].option # slot_b.opts[1].option
    /\ res.opt_name # NoOpt
    /\ Mismatching(slot_a.opts, slot_b.opts) = {res.opt_name}

\* The names two option lists give values that differ after both are put in
\* list form.
MismatchingLists(a, b) ==
    {n \in OptionNames(a) \cap OptionNames(b) :
        valuelist_normalize(ValueOf(a, n)) # valuelist_normalize(ValueOf(b, n))}

\* C21: slot_options_can_be_combined compares the values of an option in
\* list form: a bare scalar x and the list of the one element x are equal
\* and are not a mismatch.
C21_ListForm ==
    res.op = "slot_options_can_be_combined" =>
        LET a == slot_a.opts
            b == slot_b.opts
        IN /\ res.ok = (/\ OptionNames(a) = OptionNames(b)
                        /\ Cardinality(MismatchingLists(a, b)) <= 1)
           /\ res.ok => \/ MismatchingLists(a, b) = {} /\ res.opt_name = NoOpt
                        \/ MismatchingLists(a, b) = {res.opt_name}

\* The sum of the counts of the descriptors of a list that have a count.
RECURSIVE CountSum(_)
CountSum(l) ==
    IF l = <<>> THEN 0
    ELSE (IF Head(l).has_count THEN Head(l).count ELSE 0) + CountSum(Tail(l))

\* The place of the first entry of l that slots_can_be_combined accepts
\* with s, 0 when there is none.
FirstCombinable(l, s) ==
    LET hits == {i \in 1..Len(l) : slots_can_be_combined(l[i], s).ok}
    IN IF hits = {} THEN 0 ELSE Min(hits)

\* The descriptor handed to slot_list_add_slot by the step.
Added == inserted'[Len(inserted')]

\* C22: a merge adds the count of the new slot to the count of the entry
\* when the entry has a count, and the counts of the entries of slot_list
\* that have one add up to the counts of the inserted slots that had one.
C22_Step ==
    inserted' # inserted /\ FirstCombinable(slot_list, Added) # 0 =>
        LET i == FirstCombinable(slot_list, Added)
        IN slot_list'[i].count =
              IF slot_list[i].has_count THEN slot_list[i].count + Added.count
              ELSE slot_list[i].count
C22_Counts == [](CountSum(slot_list) = CountSum(inserted)) /\ [][C22_Step]_vars

\* Three slots with a count were inserted and merged into one entry.
C22_Witness ==
    /\ Len(inserted) = 3
    /\ Len(slot_list) = 1
    /\ slot_list[1].has_count
    /\ slot_list[1].count > 3

\* C23: slot_list_add_slot merges the new slot into the first entry from
\* the head that it can be combined with and stops there: that entry
\* becomes the merged descriptor, every other entry is left as it is, also
\* one further down that could be combined too, and the list keeps its
\* length and its order.
C23_Step ==
    inserted' # inserted /\ FirstCombinable(slot_list, Added) # 0 =>
        LET i == FirstCombinable(slot_list, Added)
        IN /\ Len(slot_list') = Len(slot_list)
           /\ \A j \in 1..Len(slot_list) : j # i => slot_list'[j] = slot_list[j]
           /\ slot_list'[i] = slots_try_combine(slot_list[i], Added).a
           /\ Header([slot_list'[i] EXCEPT !.count = 0])
                = Header([slot_list[i] EXCEPT !.count = 0])
           /\ OptionNames(slot_list'[i].opts) = OptionNames(slot_list[i].opts)
RECURSIVE Reverse(_)
Reverse(q) == IF q = <<>> THEN <<>> ELSE Append(Reverse(Tail(q)), Head(q))

\* No two descriptors of a sequence can be combined.
PairwiseApart(q) ==
    \A i, j \in 1..Len(q) : i # j => ~slots_can_be_combined(q[i], q[j]).ok

\* C24: when no entry can be combined with the new slot, slot_list_add_slot
\* puts it at the head and leaves the entries as they are; a sequence of
\* slots of which no two can be combined gives the list in reverse order of
\* insertion.
C24_Step ==
    inserted' # inserted /\ FirstCombinable(slot_list, Added) = 0 =>
        slot_list' = <<Added>> \o slot_list
C24_Prepend ==
    /\ [](PairwiseApart(inserted) => slot_list = Reverse(inserted))
    /\ [][C24_Step]_vars

\* Three slots of which no two can be combined were inserted.
C24_Witness ==
    /\ Len(inserted) = 3
    /\ PairwiseApart(inserted)
    /\ slot_list = <<inserted[3], inserted[2], inserted[1]>>

\* x is at most y in the natural order of two numbers or of two strings.
AtMost(x, y) ==
    IF x.ty = "qnum" THEN x.n <= y.n ELSE x.s = y.s \/ StrLess(x.s, y.s)

\* An entry matches v as a range of two ends of the type of v, a number or
\* a string, or as a scalar equal to v.
RangeMatches(e, v) ==
    /\ e.islist /\ Len(e.items) = 2
    /\ v.ty \in {"qnum", "qstring"}
    /\ e.items[1].ty = v.ty /\ e.items[2].ty = v.ty
    /\ AtMost(e.items[1], v) /\ AtMost(v, e.items[2])
ScalarMatches(e, v) == ~e.islist /\ e.items[1] = v

\* C25: valuelist_contains(values, v) is true exactly when an entry of the
\* value list in list form matches v, as a range [low, high] with v, low
\* and high all numbers or all strings and low <= v <= high, or as a scalar
\* equal to v; every other entry matches nothing.
C25_Contains ==
    vl.op = "valuelist_contains" =>
        vl.r = \E i \in 1..Len(vl.values.elems) :
                  \/ RangeMatches(vl.values.elems[i], vl.v)
                  \/ ScalarMatches(vl.values.elems[i], vl.v)

\* The same with the two cases of the code: a null entry matches nothing,
\* and a list of one scalar matches the value equal to that scalar.
C25_CodeShapes ==
    vl.op = "valuelist_contains" =>
        vl.r = \E i \in 1..Len(vl.values.elems) :
                  LET e == vl.values.elems[i]
                  IN \/ RangeMatches(e, vl.v)
                     \/ ScalarMatches(e, vl.v) /\ vl.v.ty # "qnull"
                     \/ e.islist /\ Len(e.items) = 1 /\ e.items[1] = vl.v

\* C26: a value list that is the scalar v contains v, for a scalar of each
\* of the four kinds.
C26_Reflexive ==
    vl.op = "valuelist_contains" /\ vl.values = ScalarValue(vl.v) => vl.r

\* C27: valuelist_simplify(valuelist_normalize(v)) is v for every scalar v,
\* and is the list itself for a list of two or more entries.
C27_RoundTrip ==
    vl.op = "valuelist_simplify" =>
        /\ ~vl.values.islist => vl.out = vl.values
        /\ vl.values.islist /\ Len(vl.values.elems) >= 2 => vl.out = vl.values

\* The round trip was made on the scalar null.
C27_Witness ==
    /\ vl.op = "valuelist_simplify"
    /\ vl.values = ScalarValue(QNull)
    /\ vl.out = ScalarValue(QNull)

\* The references to object o that somebody holds: the two options and the
\* lists that are not freed.
RECURSIVE Occurrences(_, _)
Occurrences(items, o) ==
    IF items = <<>> THEN 0
    ELSE (IF Head(items) = o THEN 1 ELSE 0) + Occurrences(Tail(items), o)
RECURSIVE HeldInLists(_, _, _)
HeldInLists(h, o, i) ==
    IF i = 0 THEN 0
    ELSE (IF h.objs[i].refcnt > 0 THEN Occurrences(h.objs[i].items, o) ELSE 0)
         + HeldInLists(h, o, i - 1)
Held(h, o) ==
    (IF h.a = o THEN 1 ELSE 0) + (IF h.b = o THEN 1 ELSE 0) + HeldInLists(h, o, Len(h.objs))

\* C28: the reference counts stay balanced over slots_combine and the
\* freeing of b: the count of every object is the number of references to
\* it that somebody holds, so nothing leaks and nothing is freed while it
\* is referenced.
C28_Balanced ==
    \A o \in 1..Len(heap.objs) : heap.objs[o].refcnt = Held(heap, o)

\* The hook calls in a trace.
HookCalls(tr) == {tr[i] : i \in {j \in 1..Len(tr) : tr[j][1] \in {"realize", "unrealize"}}}

\* C29: a set realized=true request that succeeds runs no hook but the
\* realize hook of the node it is made on and changes nothing but the
\* realized flag of that node: the flags of the child devices of a bus and
\* of the child buses of a device are as before.
C29_Step ==
    /\ (last'.op = "bus_set_realized" /\ last'.value /\ last'.err = NoError) =>
          /\ HookCalls(trace') \subseteq {<<"realize", "bus", last'.node, 0>>}
          /\ bus' = [bus EXCEPT ![last'.node].realized = TRUE]
          /\ dev' = dev
    /\ (last'.op = "device_set_realized" /\ last'.value /\ last'.err = NoError) =>
          /\ HookCalls(trace') \subseteq {<<"realize", "dev", last'.node, 0>>}
          /\ dev' = [dev EXCEPT ![last'.node].realized = TRUE]
          /\ bus' = bus
C29_RealizeFrame == [][C29_Step]_vars

\* A bus that holds a device was realized by its hook and the device is
\* not realized.
C29_Witness ==
    /\ last.op = "bus_set_realized" /\ last.value /\ last.arg = 0
    /\ last.err = NoError
    /\ HasEvent(trace, <<"realize", "bus", last.node, 0>>)
    /\ bus[last.node].realized
    /\ bus[last.node].children # <<>>
    /\ \A d \in Range(bus[last.node].children) : ~dev[d].realized

\* C30: on a flip property with an open function and no close function, a
\* request to set it false while it is true fails with an error, leaves it
\* true and calls nothing; while it is false the request succeeds and does
\* nothing.
C30_Step ==
    flip.live /\ flip.has_open /\ ~flip.has_close /\ flip'.live /\ flip'.req = "set false" =>
        /\ flip'.calls = <<>>
        /\ flip'.opened = flip.opened
        /\ flip.opened => flip'.err = "QERR_PERMISSION_DENIED"
        /\ ~flip.opened => flip'.err = "none"
C30_OpenOnly == [][C30_Step]_vars

\* A property with an open function only was opened and then refused a
\* request to set it false.
C30_Witness ==
    /\ flip.live /\ flip.has_open /\ ~flip.has_close
    /\ flip.req = "set false"
    /\ flip.opened
    /\ flip.err = "QERR_PERMISSION_DENIED"

\* C31: a request to set the boolean of a flip property, or the realized
\* flag of a bus, to the value it already has calls neither the open/realize
\* nor the close/unrealize function, reports no error and leaves the state
\* as it was, however often it is repeated.
C31_FlipStep ==
    FlipSet(IF flip.opened THEN "true" ELSE "false")
    => /\ flip'.calls = <<>>
       /\ flip'.err = "none"
       /\ flip'.opened = flip.opened
       /\ flip'.open_called = flip.open_called
       /\ flip'.close_called = flip.close_called
C31_BusStep ==
    (\E b \in LiveBuses : \E F \in {{}, {<<"bus", b>>}} :
        BusSetRealizedReq(b, bus[b].realized, F))
    => /\ ~\E i \in 1..Len(trace') : trace'[i][1] \in {"realize", "unrealize", "hook_error"}
       /\ last'.err = NoError
       /\ bus' = bus
       /\ dev' = dev
C31_Nop == [][C31_FlipStep /\ C31_BusStep]_vars

\* An open property with an open and a close function was set to true again
\* while its open function was to fail, and a realized PCI bus was set
\* realized again while its hook was to fail; neither request called a
\* function or reported an error.
C31_Witness ==
    /\ flip.live /\ flip.has_open /\ flip.has_close /\ flip.open_should_fail
    /\ flip.req = "set true" /\ flip.opened /\ flip.calls = <<>> /\ flip.err = "none"
    /\ last.op = "bus_set_realized" /\ last.value /\ last.arg = 1
    /\ bus[last.node].realized
    /\ BusClass[bus[last.node].type].realize
    /\ last.err = NoError

\* C32: when a flip property with a close function is removed while it is
\* true, the close function is called exactly once during the removal; when
\* it is removed while false, the close function is not called.
C32_Step ==
    FlipRelease =>
        /\ flip.opened /\ flip.has_close => flip'.calls = <<"close">>
        /\ ~flip.opened => flip'.calls = <<>>
C32_Release == [][C32_Step]_vars

\* An open property with a close function was removed and its close
\* function ran once, although it reported an error.
C32_Witness ==
    /\ ~flip.live /\ flip.req = "release"
    /\ flip.has_close /\ flip.close_should_fail
    /\ flip.calls = <<"close">>

\* C38: on a flip property with an open and a close function, over any
\* requests to set it true or false, with functions that may fail, the calls
\* of the two functions that succeed alternate and start with open: the open
\* function is never called while the flag is true, the close function never
\* while it is false, and the flag is true exactly when the last call that
\* succeeded was one of the open function.
C38_Flag ==
    flip.live /\ flip.has_open /\ flip.has_close =>
        (flip.opened <=> flip.last_ok = "open")
C38_Step ==
    /\ flip.has_open /\ flip.has_close
    /\ \E input \in {"true", "false", "bad"} : FlipSet(input)
    => /\ Count(flip'.calls, "open") > 0 => ~flip.opened
       /\ Count(flip'.calls, "close") > 0 => flip.opened
       /\ flip'.calls = <<"open">> /\ flip'.err = "none" => flip.last_ok # "open"
       /\ flip'.calls = <<"close">> /\ flip'.err = "none" => flip.last_ok = "open"
C38_Alternate == [](C38_Flag) /\ [][C38_Step]_vars

\* A property with both functions was opened, closed and opened, then a
\* request to close it failed in the close function and left it open.
C38_Witness ==
    /\ flip.live /\ flip.has_open /\ flip.has_close
    /\ flip.req = "set false" /\ flip.calls = <<"close">> /\ flip.err = "close failed"
    /\ flip.opened /\ flip.last_ok = "open" /\ flip.open_called

\* C35: after any sequence of slot_list_add_slot calls on a list that was
\* empty, no two entries of the list at different places can be combined:
\* slots_can_be_combined refuses every such pair.
C35_FullyMerged == PairwiseApart(slot_list)

\* The scalars a value list stands for: those matched by one of its entries
\* in list form, among the scalars S.
Members(values, S) ==
    LET l == valuelist_normalize(values)
    IN {v \in S : \E i \in 1..Len(l) : ScalarMatches(l[i], v) \/ RangeMatches(l[i], v)}

\* The scalars of the option values of the inserted descriptors.
InsertedScalars ==
    {inserted[i].opts[j].values.elems[1].items[1] :
        i \in 1..Len(inserted), j \in {1, 2}}

\* The header fields of a descriptor but its count, which a merge changes.
Fields(d) == [Header(d) EXCEPT !.count = 0]

\* Entry e covers the inserted descriptor s: the same header fields, the
\* same option names, and each value of s among those of e.
Covers(e, s) ==
    /\ Fields(e) = Fields(s)
    /\ Len(e.opts) = Len(s.opts)
    /\ \A j \in 1..Len(s.opts) :
          /\ e.opts[j].option = s.opts[j].option
          /\ s.opts[j].values.elems[1].items[1] \in Members(e.opts[j].values, InsertedScalars)

\* The places of the options of e whose value list has several elements.
Wide(e) == {j \in 1..Len(e.opts) : Len(valuelist_normalize(e.opts[j].values)) > 1}

\* Every pair of an address and a bus name that entry e stands for was
\* inserted with the header fields of e.
OnlyInserted(e) ==
    \A x \in Members(e.opts[1].values, InsertedScalars),
       y \in Members(e.opts[2].values, InsertedScalars) :
        \E i \in 1..Len(inserted) :
            /\ Fields(inserted[i]) = Fields(e)
            /\ inserted[i].opts[1].values = ScalarValue(x)
            /\ inserted[i].opts[2].values = ScalarValue(y)

\* C36: after any sequence of slot_list_add_slot calls with descriptors whose
\* option values are bare scalars, every inserted descriptor is covered by
\* an entry of the list with the same header fields, every entry has at most
\* one option with more than one value, and every combination of values an
\* entry stands for was inserted.
C36_Faithful ==
    /\ \A i \in 1..Len(inserted) : \E k \in 1..Len(slot_list) : Covers(slot_list[k], inserted[i])
    /\ \A k \in 1..Len(slot_list) :
          /\ Cardinality(Wide(slot_list[k])) <= 1
          /\ OnlyInserted(slot_list[k])

\* Four descriptors were inserted and merged into two entries, each with two
\* values of one option.
C36_Witness ==
    /\ Len(inserted) = 4
    /\ Len(slot_list) = 2
    /\ \A k \in 1..2 : Cardinality(Wide(slot_list[k])) = 1
    /\ Cardinality({inserted[i] : i \in 1..4}) = 4

\* The option names of a descriptor are pairwise different.
UniqueNames(d) ==
    \A i, j \in 1..Len(d.opts) : d.opts[i].option = d.opts[j].option => i = j

\* C37: for descriptors a and b whose option names are unique within each,
\* slots_can_be_combined(a, b) and slots_can_be_combined(b, a) return the
\* same result and report the same mismatching option name.
C37_Symmetric ==
    /\ res.op = "slots_can_be_combined"
    /\ UniqueNames(slot_a) /\ UniqueNames(slot_b)
    => LET back == slots_can_be_combined(slot_b, slot_a)
       IN res.ok = back.ok /\ res.opt_name = back.opt_name

\* slots_can_be_combined accepted a descriptor with a merged list of bus
\* names and one with a bare bus name, both with two options, and reported
\* the option bus.
C37_Witness ==
    /\ res.op = "slots_can_be_combined" /\ res.ok /\ res.opt_name = "bus"
    /\ Len(slot_a.opts) = 2 /\ Len(slot_b.opts) = 2
    /\ \E i \in 1..2 : slot_a.opts[i].values.islist
    /\ slots_can_be_combined(slot_b, slot_a).ok

\* A sequence is the start of another.
IsPrefix(p, q) == Len(p) <= Len(q) /\ SubSeq(q, 1, Len(p)) = p

\* buffered_flush is running, inside buffered_close.
Flushing == bf.pc \in {"flush", "wait"}

\* C33: buffered_flush flushes everything: with a backend that after each
\* wait_for_unfreeze takes bytes or reports an error, buffered_flush
\* returns, and when it returns the internal buffer is empty or the file has
\* an error set, also when the transfer limit of the period is exceeded at
\* the time of the call.
C33_ReturnStep == BufferedCloseLeave => bf.buffer = <<>> \/ bf.error # 0
C33_Flushes == [][C33_ReturnStep]_vars /\ (Flushing ~> ~Flushing)

\* C34: put_buffer of the backend is never called while the output is
\* frozen, while bytes_xfer exceeds xfer_limit or after the file has an
\* error set; a rate tick that finds the output frozen does not reset
\* bytes_xfer, calls neither put_buffer nor put_ready and leaves the buffer
\* as it is.
C34_TickStep ==
    BufferedRateTick /\ bf.freeze_output =>
        /\ bf'.bytes_xfer = bf.bytes_xfer
        /\ bf'.put_calls = 0
        /\ ~bf'.notified
        /\ bf'.buffer = bf.buffer
        /\ bf'.sent = bf.sent
C34_Guarded == [](~bf.bad_put) /\ [][C34_TickStep]_vars

\* A rate tick found the output frozen with bytes in the buffer and bytes
\* counted against the limit, after the backend had taken bytes.
C34_Witness ==
    /\ bf.op = "tick" /\ bf.pc = "idle" /\ bf.error = 0
    /\ bf.freeze_output
    /\ bf.buffer # <<>> /\ bf.sent # <<>>
    /\ bf.bytes_xfer > 0

C40_ClosedOnce == bf.closes <= 1 /\ bf.backend_closes <= 1 /\ ~bf.stale

====
